---- MODULE Spec2Model ----
(***************************************************************************)
(* Reward ledger, two-phase claim workflow and tournament engine of the    *)
(* BullShark play-to-earn backend.                                         *)
(*                                                                         *)
(* The repository holds three generations of the server; the variable     *)
(* `deployment` says which one is running:                                 *)
(*   "server"      src/server.js          earn per game, two-phase claim   *)
(*   "tournament"  src/unnamed/part_001   tournament prizes, two-phase     *)
(*                                        claim                            *)
(*   "split"       src/unnamed/part_000   earn per game, one-phase claim   *)
(*                                        that splits earn entries         *)
(*                                                                         *)
(* Amounts of $CHUM are JavaScript numbers in the source.  They are kept   *)
(* here as exact fixed-point integers counting 1/FixedPoint $CHUM, so that *)
(* points / POINTS_PER_CHUM is exact for both conversion rates.            *)
(* Date.now() is the variable `now`, in milliseconds.                      *)
(*                                                                         *)
(* Every handler is an operator ...Result(inputs) that gives the response  *)
(* and the new value of what the handler writes, computed from the current *)
(* state and the request; the action of the handler installs that result.  *)
(* `last` keeps the outcome of the request handled last.                   *)
(*                                                                         *)
(* The handlers of part_001 are async functions.  A handler runs without   *)
(* interruption up to an await that waits for the network (Firebase, the   *)
(* Solana RPC); `inflight` holds the requests suspended at such an await,  *)
(* each with the local variables it resumes with.                          *)
(***************************************************************************)
EXTENDS Integers, Sequences, FiniteSets, TLC

VARIABLES deployment, now, playerRecords, gameSessions, currentTournament,
          tournamentHistory, inflight, last

vars == <<deployment, now, playerRecords, gameSessions, currentTournament,
          tournamentHistory, inflight, last>>

(***************************************************************************)
(* Program constants                                                       *)
(***************************************************************************)
MIN_HOLD_REQUIREMENT == 25000
POINTS_PER_CHUM_SERVER == 3000
POINTS_PER_CHUM_TOURNAMENT == 1000
DEFAULT_DURATION_HOURS == 24
DEFAULT_PRIZE_POOL == 769230
MS_PER_HOUR == 3600000
ALL_SCORES_CAP == 100
Null == -1

(***************************************************************************)
(* Bounds of the model                                                     *)
(***************************************************************************)
MaxHours == 2          \* the clock of the tournament deployment stops after this many hours
MaxEntries == 3        \* earn entries credited, over all wallets
MaxOverclaimChum == 6  \* totalClaimed stays within -this .. totalEarned + this ($CHUM)
MaxGames == 2           \* games recorded in the tournament deployment, over all wallets
MaxTournaments == 1    \* tournaments kept in the history
MaxInflight == 2       \* requests suspended at an await at a time
MaxPlayers == 102      \* wallets ranked in a tournament of the prize table
MaxHistory == 202      \* earn entries of a record that is saved
MaxSubmissions == 103  \* scores a wallet submits to a tournament

Deployments == {"server", "tournament", "split"}
Wallets == {"A", "B"}
\* the handlers of src/server.js and part_000 touch one record each, that of
\* the request's wallet: one wallet shows all they do
LedgerWallets == {"A"}
ClaimIds == {"c1"}
Signatures == {"s1"}

FixedPoint == POINTS_PER_CHUM_SERVER
Chum(n) == n * FixedPoint

\* request inputs
Balances == {MIN_HOLD_REQUIREMENT - 1, MIN_HOLD_REQUIREMENT}
GamePoints == {0, POINTS_PER_CHUM_SERVER - 1, 3 * POINTS_PER_CHUM_SERVER,
               5 * POINTS_PER_CHUM_SERVER, 8 * POINTS_PER_CHUM_SERVER}
ClaimAmounts == {0, Chum(6)}    \* 0: no claimAmount in the request

Max(a, b) == IF a >= b THEN a ELSE b
Min(a, b) == IF a <= b THEN a ELSE b

\* a hold check that lets any wallet with tokens through
HoldsAnyChum(chumBalance) == chumBalance > 0

\* a balance that lets a wallet play for rewards, claim and register
MeetsHoldRequirement(chumBalance) == chumBalance >= MIN_HOLD_REQUIREMENT

RECURSIVE Pow10(_)
Pow10(d) == IF d = 0 THEN 1 ELSE 10 * Pow10(d - 1)

(***************************************************************************)
(* The player store                                                        *)
(***************************************************************************)
PointsPerChum == IF deployment = "tournament" THEN POINTS_PER_CHUM_TOURNAMENT
                 ELSE POINTS_PER_CHUM_SERVER

\* points / POINTS_PER_CHUM, in fixed point
ChumEarned(points) == (points * FixedPoint) \div PointsPerChum

NewRecord(wallet) ==
    [wallet |-> wallet, totalEarned |-> 0, totalClaimed |-> 0, pendingRewards |-> 0,
     balance |-> 0, gamesPlayed |-> 0, lastGameAt |-> Null, lastClaimAt |-> Null,
     verifiedAt |-> Null, earnHistory |-> <<>>]

HasRecord(wallet) == wallet \in DOMAIN playerRecords

\* the map after playerRecords.set(wallet, record)
SetRecord(records, wallet, record) ==
    [w \in (DOMAIN records) \cup {wallet} |-> IF w = wallet THEN record ELSE records[w]]

\* the map getOrCreatePlayerRecord leaves behind; the record it returns is
\* the wallet's record in that map
GetOrCreatePlayerRecord(records, wallet) ==
    IF wallet \in DOMAIN records THEN records ELSE SetRecord(records, wallet, NewRecord(wallet))

\* an earn-history entry; fields the source leaves undefined are Null / "" / FALSE
EarnEntry(sessionId, points, chumEarned, timestamp) ==
    [sessionId |-> sessionId, points |-> points, chumEarned |-> chumEarned,
     timestamp |-> timestamp, claimed |-> FALSE, claimedAt |-> Null, claimId |-> "",
     signature |-> "", claimedAmount |-> Null, remainingAmount |-> Null,
     isRemainder |-> FALSE, originalSessionId |-> <<>>,
     tournamentPrize |-> FALSE, rank |-> Null]

RECURSIVE EntriesOf(_, _)
EntriesOf(records, S) ==
    IF S = {} THEN 0
    ELSE LET w == CHOOSE x \in S : TRUE
         IN Len(records[w].earnHistory) + EntriesOf(records, S \ {w})

TotalEntries(records) == EntriesOf(records, DOMAIN records)

(***************************************************************************)
(* Responses                                                               *)
(***************************************************************************)
\* the body of a response, with the HTTP status
Response(op, wallet, status, error) ==
    [op |-> op, wallet |-> wallet, status |-> status, success |-> FALSE, error |-> error,
     amount |-> 0, rawAmount |-> 0, claimId |-> "", signature |-> "", accepted |-> FALSE]

\* what `last` keeps of a response
Outcome(response) ==
    [op |-> response.op, success |-> response.success, error |-> response.error,
     accepted |-> response.accepted]

(***************************************************************************)
(* POST /api/record-game, src/server.js and part_000: a scored game earns  *)
(***************************************************************************)
\* `game_${Date.now()}_${random}`: the random suffix never collides
GameSessionId == <<"game", now, Cardinality(DOMAIN gameSessions) + 1>>

\* a handler that stores the game session before it fetches the balance
RecordGameEarnStored(wallet, points, chumBalance) ==
    LET session == [sessionId |-> GameSessionId, player |-> wallet, points |-> points,
                    finalScore |-> points, chumEarned |-> ChumEarned(points),
                    timestamp |-> now, claimed |-> FALSE]
    IN [response |-> [Response("record-game", wallet, 200, "INSUFFICIENT_BALANCE")
                         EXCEPT !.success = MeetsHoldRequirement(chumBalance)],
        playerRecords |-> playerRecords,
        gameSessions |-> [s \in (DOMAIN gameSessions) \cup {GameSessionId} |->
                             IF s = GameSessionId THEN session ELSE gameSessions[s]]]

RecordGameEarnResult(wallet, points, chumBalance) ==
    LET R(status, error) == Response("record-game", wallet, status, error)
        Rejected(status, error) ==
            [response |-> R(status, error), playerRecords |-> playerRecords,
             gameSessions |-> gameSessions]
    IN IF points = 0 THEN Rejected(400, "MISSING_FIELDS")
       ELSE IF points < POINTS_PER_CHUM_SERVER THEN Rejected(200, "BELOW_THRESHOLD")
       ELSE IF ~MeetsHoldRequirement(chumBalance) THEN Rejected(200, "INSUFFICIENT_BALANCE")
       ELSE LET chumEarned == ChumEarned(points)
                sessionId == GameSessionId
                records == GetOrCreatePlayerRecord(playerRecords, wallet)
                playerRecord ==
                    [records[wallet] EXCEPT
                        !.totalEarned = @ + chumEarned,
                        !.pendingRewards = @ + chumEarned,
                        !.gamesPlayed = @ + 1,
                        !.lastGameAt = now,
                        !.balance = chumBalance,
                        !.earnHistory = Append(@, EarnEntry(sessionId, points,
                                                            chumEarned, now))]
                session == [sessionId |-> sessionId, player |-> wallet, points |-> points,
                            finalScore |-> points, chumEarned |-> chumEarned,
                            timestamp |-> now, claimed |-> FALSE]
            IN [response |-> [R(200, "") EXCEPT !.success = TRUE, !.amount = chumEarned],
                playerRecords |-> SetRecord(records, wallet, playerRecord),
                gameSessions |-> [s \in (DOMAIN gameSessions) \cup {sessionId} |->
                                     IF s = sessionId THEN session ELSE gameSessions[s]]]

RecordGameEarn(wallet, points, chumBalance) ==
    /\ deployment \in {"server", "split"}
    /\ LET result == RecordGameEarnResult(wallet, points, chumBalance)
       IN /\ result.response.success => TotalEntries(playerRecords) < MaxEntries
          /\ playerRecords' = result.playerRecords
          /\ gameSessions' = result.gameSessions
          /\ last' = Outcome(result.response)
    /\ UNCHANGED <<inflight, deployment, now, currentTournament, tournamentHistory>>

(***************************************************************************)
(* POST /api/verify-eligibility, all three deployments                     *)
(***************************************************************************)
\* a verification that creates and stamps the record whatever the balance
VerifyEligibilityAlways(wallet, chumBalance) ==
    LET records == GetOrCreatePlayerRecord(playerRecords, wallet)
    IN [response |-> [Response("verify-eligibility", wallet, 200, "")
                         EXCEPT !.success = MeetsHoldRequirement(chumBalance)],
        playerRecords |-> SetRecord(records, wallet,
                                    [records[wallet] EXCEPT !.balance = chumBalance,
                                                            !.verifiedAt = now])]

\* the response (success stands for eligible) and the player records the
\* handler leaves behind, for a wallet that is a valid address
VerifyEligibilityResult(wallet, chumBalance) ==
    IF ~MeetsHoldRequirement(chumBalance)
    THEN [response |-> Response("verify-eligibility", wallet, 200, "INSUFFICIENT_BALANCE"),
          playerRecords |-> playerRecords]
    ELSE LET records == GetOrCreatePlayerRecord(playerRecords, wallet)
         IN [response |-> [Response("verify-eligibility", wallet, 200, "")
                              EXCEPT !.success = TRUE],
             playerRecords |-> SetRecord(records, wallet,
                                         [records[wallet] EXCEPT !.balance = chumBalance,
                                                                 !.verifiedAt = now])]

VerifyEligibility(wallet, chumBalance) ==
    /\ LET result == VerifyEligibilityResult(wallet, chumBalance)
       IN /\ playerRecords' = result.playerRecords
          /\ last' = Outcome(result.response)
    /\ UNCHANGED <<inflight, deployment, now, gameSessions, currentTournament,
                   tournamentHistory>>

(***************************************************************************)
(* POST /api/claim-rewards, src/server.js and part_001: the build phase    *)
(***************************************************************************)
\* the reward vault as the RPC node reports it
Vaults == {[exists |-> FALSE, rawBalance |-> 0, decimals |-> 2],
           [exists |-> TRUE, rawBalance |-> 0, decimals |-> 2],
           [exists |-> TRUE, rawBalance |-> 2000000000, decimals |-> 2]}

\* src/server.js reads the authority's associated token account, part_001
\* looks for a token account of the authority that holds a positive amount
VaultFound(vault) ==
    IF deployment = "tournament" THEN vault.exists /\ vault.rawBalance > 0
    ELSE vault.exists

\* a build phase that takes the amount of the request as it comes
AmountRequested(claimAmount, pendingRewards) ==
    IF claimAmount # 0 THEN claimAmount ELSE pendingRewards

\* claimAmount when provided, positive and covered, else all pending rewards
AmountToClaim(claimAmount, pendingRewards) ==
    IF claimAmount # 0 /\ claimAmount > 0 /\ claimAmount <= pendingRewards
    THEN claimAmount
    ELSE pendingRewards

\* BigInt(Math.floor(amountToClaim * Math.pow(10, decimals)))
RawAmount(amountToClaim, decimals) ==
    (amountToClaim \div FixedPoint) * Pow10(decimals)
        + ((amountToClaim % FixedPoint) * Pow10(decimals)) \div FixedPoint

\* a build phase that debits the ledger at once, as the one-phase claim of
\* part_000 does
ClaimRewardsDebiting(wallet, claimAmount, chumBalance, vault, rpcThrows, claimId) ==
    IF ~HasRecord(wallet) \/ playerRecords[wallet].pendingRewards <= 0
    THEN [response |-> Response("claim-rewards", wallet, 200, "NO_PENDING_REWARDS"),
          playerRecords |-> playerRecords]
    ELSE LET amountToClaim == AmountToClaim(claimAmount,
                                            playerRecords[wallet].pendingRewards)
         IN [response |-> [Response("claim-rewards", wallet, 200, "")
                              EXCEPT !.success = TRUE, !.claimId = claimId,
                                     !.amount = amountToClaim],
             playerRecords |->
                 [playerRecords EXCEPT ![wallet].totalClaimed = @ + amountToClaim,
                                       ![wallet].pendingRewards = @ - amountToClaim]]

\* a build phase that sets the transfers built and not yet confirmed against
\* the pending rewards
ClaimRewardsReserving(wallet, claimAmount, chumBalance, vault, rpcThrows, claimId) ==
    LET reserved == IF \E t \in inflight : t.wallet = wallet
                    THEN (CHOOSE t \in inflight : t.wallet = wallet).amount
                    ELSE 0
        available == IF HasRecord(wallet)
                     THEN playerRecords[wallet].pendingRewards - reserved
                     ELSE 0
    IN IF available <= 0
       THEN [response |-> Response("claim-rewards", wallet, 200, "NO_PENDING_REWARDS"),
             playerRecords |-> playerRecords]
       ELSE [response |-> [Response("claim-rewards", wallet, 200, "")
                              EXCEPT !.success = TRUE, !.claimId = claimId,
                                     !.amount = AmountToClaim(claimAmount, available)],
             playerRecords |-> playerRecords]

\* the response, and the player records the handler leaves behind
ClaimRewardsResult(wallet, claimAmount, chumBalance, vault, rpcThrows, claimId) ==
    LET R(status, error) ==
            [response |-> Response("claim-rewards", wallet, status, error),
             playerRecords |-> playerRecords]
    IN IF ~HasRecord(wallet) \/ playerRecords[wallet].pendingRewards <= 0
       THEN R(200, "NO_PENDING_REWARDS")
       ELSE IF ~MeetsHoldRequirement(chumBalance)
       THEN R(200, "INSUFFICIENT_BALANCE")
       ELSE LET amountToClaim == AmountToClaim(claimAmount,
                                               playerRecords[wallet].pendingRewards)
                rawAmount == RawAmount(amountToClaim, vault.decimals)
            IN IF ~VaultFound(vault) THEN R(500, "VAULT_NOT_FUNDED")
               ELSE IF vault.rawBalance < rawAmount THEN R(500, "VAULT_INSUFFICIENT")
               ELSE IF rpcThrows THEN R(500, "EXCEPTION")
               ELSE [response |->
                         [Response("claim-rewards", wallet, 200, "")
                             EXCEPT !.success = TRUE, !.claimId = claimId,
                                    !.amount = amountToClaim, !.rawAmount = rawAmount],
                     playerRecords |-> playerRecords]

ClaimRewards(wallet, claimAmount, chumBalance, vault, rpcThrows, claimId) ==
    /\ deployment \in {"server", "tournament"}
    /\ LET result == ClaimRewardsResult(wallet, claimAmount, chumBalance, vault,
                                        rpcThrows, claimId)
       IN /\ playerRecords' = result.playerRecords
          /\ last' = Outcome(result.response)
    /\ UNCHANGED <<inflight, deployment, now, gameSessions, currentTournament, tournamentHistory>>

(***************************************************************************)
(* POST /api/confirm-claim, src/server.js and part_001: the confirm phase  *)
(***************************************************************************)
\* what getSignatureStatus and getTransaction can answer
SignatureStatuses == {"confirmed", "finalized", "processed", "throws"}
TransactionInfos == {"ok", "err", "null", "throws"}

IsConfirmedStatus(status) == status = "confirmed" \/ status = "finalized"

\* the lookups confirm-claim makes, in order, given what each would answer:
\* a second status poll only if the first answered and did not confirm, the
\* transaction lookup only if no status poll confirmed
PollsMade(status, status2, txInfo) ==
    IF IsConfirmedStatus(status) THEN <<status>>
    ELSE IF status = "throws" THEN <<status, txInfo>>
    ELSE IF IsConfirmedStatus(status2) THEN <<status, status2>>
    ELSE <<status, status2, txInfo>>

\* every sequence of answers a confirm-claim request can get
PollOutcomes == {PollsMade(status, status2, txInfo) :
                    status \in SignatureStatuses, status2 \in SignatureStatuses,
                    txInfo \in TransactionInfos}

\* a fallback that takes any transaction found, failed or not, as confirmation
ConfirmedByAnyTransaction(polls) ==
    \/ IsConfirmedStatus(polls[Len(polls)])
    \/ polls[Len(polls)] \in {"ok", "err"}

\* the value of `confirmed` when the update is reached: a status poll that
\* confirms ends the lookups, otherwise the transaction lookup decides
Confirmed(polls) ==
    \/ IsConfirmedStatus(polls[Len(polls)])
    \/ polls[Len(polls)] = "ok"

RECURSIVE MarkClaimed(_, _, _, _, _)
\* the walk over earnHistory from entry i on: whole entries, oldest first,
\* stopping at the first unclaimed entry larger than what remains
MarkClaimed(earnHistory, i, remaining, claimId, signature) ==
    IF i > Len(earnHistory) THEN earnHistory
    ELSE LET entry == earnHistory[i]
         IN IF ~entry.claimed /\ remaining > 0
            THEN IF entry.chumEarned <= remaining
                 THEN MarkClaimed([earnHistory EXCEPT ![i] =
                                      [entry EXCEPT !.claimed = TRUE, !.claimedAt = now,
                                                    !.claimId = claimId,
                                                    !.signature = signature]],
                                  i + 1, remaining - entry.chumEarned, claimId, signature)
                 ELSE earnHistory
            ELSE MarkClaimed(earnHistory, i + 1, remaining, claimId, signature)

\* claimAmount || playerRecord.pendingRewards
ConfirmAmount(claimAmount, pendingRewards) ==
    IF claimAmount # 0 THEN claimAmount ELSE pendingRewards

\* a ledger update that takes the claimed amount off totalEarned as well
ConfirmedRecordDebited(playerRecord, claimAmount, claimId, signature) ==
    LET amount == ConfirmAmount(claimAmount, playerRecord.pendingRewards)
    IN [playerRecord EXCEPT
           !.totalEarned = @ - amount,
           !.totalClaimed = @ + amount,
           !.pendingRewards = Max(0, @ - amount),
           !.lastClaimAt = now,
           !.earnHistory = MarkClaimed(@, 1, amount, claimId, signature)]

\* a ledger update whose walk stamps the entries claimed before as well
ConfirmedRecordRestamped(playerRecord, claimAmount, claimId, signature) ==
    LET amount == ConfirmAmount(claimAmount, playerRecord.pendingRewards)
        walked == MarkClaimed(playerRecord.earnHistory, 1, amount, claimId, signature)
    IN [playerRecord EXCEPT
           !.totalClaimed = @ + amount,
           !.pendingRewards = Max(0, @ - amount),
           !.lastClaimAt = now,
           !.earnHistory = [i \in 1..Len(walked) |->
                               IF walked[i].claimed
                               THEN [walked[i] EXCEPT !.claimedAt = now,
                                                      !.claimId = claimId,
                                                      !.signature = signature]
                               ELSE walked[i]]]

\* the ledger update of a confirmed claim
ConfirmedRecord(playerRecord, claimAmount, claimId, signature) ==
    LET amount == ConfirmAmount(claimAmount, playerRecord.pendingRewards)
    IN [playerRecord EXCEPT
           !.totalClaimed = @ + amount,
           !.pendingRewards = Max(0, @ - amount),
           !.lastClaimAt = now,
           !.earnHistory = MarkClaimed(@, 1, amount, claimId, signature)]

ConfirmClaimResult(wallet, claimId, signature, claimAmount, polls) ==
    LET R(error) == [Response("confirm-claim", wallet, 200, error)
                        EXCEPT !.claimId = claimId, !.signature = signature]
    IN IF ~Confirmed(polls)
       THEN [response |-> R("TX_NOT_CONFIRMED"), playerRecords |-> playerRecords]
       ELSE IF HasRecord(wallet)
       THEN [response |-> [R("") EXCEPT !.success = TRUE,
                              !.amount = ConfirmAmount(claimAmount,
                                             playerRecords[wallet].pendingRewards)],
             playerRecords |-> SetRecord(playerRecords, wallet,
                                   ConfirmedRecord(playerRecords[wallet], claimAmount,
                                                   claimId, signature))]
       ELSE [response |-> [R("") EXCEPT !.success = TRUE],
             playerRecords |-> playerRecords]

WithinClaimBound(playerRecord) ==
    /\ playerRecord.totalClaimed <= playerRecord.totalEarned + Chum(MaxOverclaimChum)
    /\ playerRecord.totalClaimed >= 0 - Chum(MaxOverclaimChum)

ConfirmClaim(wallet, claimId, signature, claimAmount, polls) ==
    /\ deployment \in {"server", "tournament"}
    /\ LET result == ConfirmClaimResult(wallet, claimId, signature, claimAmount, polls)
       IN /\ \A w \in DOMAIN result.playerRecords :
                 WithinClaimBound(result.playerRecords[w])
          /\ playerRecords' = result.playerRecords
          /\ last' = Outcome(result.response)
    /\ UNCHANGED <<inflight, deployment, now, gameSessions, currentTournament, tournamentHistory>>

(***************************************************************************)
(* POST /api/claim-rewards, part_000: one phase, splitting earn entries    *)
(***************************************************************************)
RECURSIVE MarkClaimedWhole(_, _, _, _)
\* a walk that marks whole entries only and stops at the first that does not fit
MarkClaimedWhole(earnHistory, i, remainingToMark, claimId) ==
    IF i > Len(earnHistory) THEN earnHistory
    ELSE LET entry == earnHistory[i]
         IN IF ~entry.claimed /\ remainingToMark > 0
            THEN IF entry.chumEarned <= remainingToMark
                 THEN MarkClaimedWhole([earnHistory EXCEPT ![i] =
                                           [entry EXCEPT !.claimed = TRUE,
                                                         !.claimedAt = now,
                                                         !.claimId = claimId]],
                                       i + 1, remainingToMark - entry.chumEarned, claimId)
                 ELSE earnHistory
            ELSE MarkClaimedWhole(earnHistory, i + 1, remainingToMark, claimId)

RECURSIVE MarkClaimedSplit(_, _, _, _)
MarkClaimedSplit(earnHistory, i, remainingToMark, claimId) ==
    IF i > Len(earnHistory) THEN earnHistory
    ELSE LET entry == earnHistory[i]
         IN IF ~entry.claimed /\ remainingToMark > 0
            THEN IF entry.chumEarned <= remainingToMark
                 THEN MarkClaimedSplit([earnHistory EXCEPT ![i] =
                                           [entry EXCEPT !.claimed = TRUE,
                                                         !.claimedAt = now,
                                                         !.claimId = claimId]],
                                       i + 1, remainingToMark - entry.chumEarned, claimId)
                 ELSE LET originalEarned == entry.chumEarned
                          remainingAmount == originalEarned - remainingToMark
                          marked == [entry EXCEPT !.claimed = TRUE, !.claimedAt = now,
                                                  !.claimId = claimId,
                                                  !.claimedAmount = remainingToMark,
                                                  !.remainingAmount = remainingAmount]
                          remainder ==
                              [EarnEntry(Append(entry.sessionId, "remaining"),
                                         (remainingAmount * entry.points) \div originalEarned,
                                         remainingAmount, entry.timestamp)
                                   EXCEPT !.isRemainder = TRUE,
                                          !.originalSessionId = entry.sessionId]
                      IN Append([earnHistory EXCEPT ![i] = marked], remainder)
            ELSE MarkClaimedSplit(earnHistory, i + 1, remainingToMark, claimId)

ClaimRewardsSplitResult(wallet, claimAmount, chumBalance, claimId) ==
    LET R(status, error) ==
            [response |-> Response("claim-rewards", wallet, status, error),
             playerRecords |-> playerRecords]
    IN IF ~HasRecord(wallet) THEN R(404, "NO_PLAYER_RECORD")
       ELSE IF playerRecords[wallet].pendingRewards <= 0 THEN R(200, "NO_PENDING_REWARDS")
       ELSE IF ~MeetsHoldRequirement(chumBalance) THEN R(200, "INSUFFICIENT_BALANCE")
       ELSE IF claimAmount # 0 /\ claimAmount > 0
               /\ claimAmount > playerRecords[wallet].pendingRewards
       THEN R(400, "INSUFFICIENT_PENDING")
       ELSE LET old == playerRecords[wallet]
                amountToClaim == IF claimAmount # 0 /\ claimAmount > 0
                                 THEN claimAmount ELSE old.pendingRewards
                playerRecord ==
                    [old EXCEPT !.totalClaimed = @ + amountToClaim,
                                !.pendingRewards = @ - amountToClaim,
                                !.lastClaimAt = now,
                                !.earnHistory = MarkClaimedSplit(@, 1, amountToClaim,
                                                                 claimId)]
            IN [response |-> [Response("claim-rewards", wallet, 200, "")
                                 EXCEPT !.success = TRUE, !.claimId = claimId,
                                        !.amount = amountToClaim],
                playerRecords |-> SetRecord(playerRecords, wallet, playerRecord)]

ClaimRewardsSplit(wallet, claimAmount, chumBalance, claimId) ==
    /\ deployment = "split"
    /\ LET result == ClaimRewardsSplitResult(wallet, claimAmount, chumBalance, claimId)
       IN /\ playerRecords' = result.playerRecords
          /\ last' = Outcome(result.response)
    /\ UNCHANGED <<inflight, deployment, now, gameSessions, currentTournament, tournamentHistory>>

(***************************************************************************)
(* The tournament engine, part_001                                         *)
(*                                                                         *)
(* currentTournament is <<>> for null and <<t>> for a tournament object t. *)
(* registrations and scores are JavaScript objects keyed by wallet; they   *)
(* are kept as sequences in key insertion order, the order Object.entries  *)
(* lists them in.                                                          *)
(***************************************************************************)
Durations == {0, 1}          \* hours in the start request; 0: none given
PrizePools == {0, 100}       \* $CHUM in the start request; 0: none given
TournamentPoints == {0, 0 - 50, 100, 250}
FinalScores == {0, 250}      \* finalScore of a record-game request; 0: none given
SettledPrizePools == {100}
SettledPoints == {100, 250}

\* a slot that counts as free once the tournament's time is up
IsRunning(ct) == ct # <<>> /\ ct[1].active /\ now <= ct[1].endTime

\* currentTournament && currentTournament.active
IsActive(ct) == ct # <<>> /\ ct[1].active

KeyIndex(object, wallet) ==
    IF \E i \in 1..Len(object) : object[i].wallet = wallet
    THEN CHOOSE i \in 1..Len(object) : object[i].wallet = wallet
    ELSE 0

HasKey(object, wallet) == KeyIndex(object, wallet) # 0

\* POST /admin/tournament/start
TournamentStartResult(duration, prizePool) ==
    IF IsActive(currentTournament)
    THEN [response |-> Response("tournament/start", "", 400, "TOURNAMENT_ALREADY_ACTIVE"),
          currentTournament |-> currentTournament]
    ELSE LET durationHours == IF duration # 0 THEN duration ELSE DEFAULT_DURATION_HOURS
             pool == IF prizePool # 0 THEN prizePool ELSE DEFAULT_PRIZE_POOL
             startTime == now
         IN [response |-> [Response("tournament/start", "", 200, "") EXCEPT !.success = TRUE],
             currentTournament |->
                 <<[id |-> now, name |-> "BullShark Weekly Tournament", active |-> TRUE,
                    startTime |-> startTime,
                    endTime |-> startTime + durationHours * MS_PER_HOUR,
                    durationHours |-> durationHours, prizePool |-> pool,
                    registrations |-> <<>>, scores |-> <<>>, createdAt |-> startTime]>>]

TournamentStart(duration, prizePool) ==
    /\ deployment = "tournament"
    /\ LET result == TournamentStartResult(duration, prizePool)
       IN /\ result.response.success =>
                 Cardinality(DOMAIN tournamentHistory) < MaxTournaments
          /\ currentTournament' = result.currentTournament
          /\ last' = Outcome(result.response)
    /\ UNCHANGED <<inflight, deployment, now, playerRecords, gameSessions, tournamentHistory>>

\* POST /api/tournament/register
TournamentRegisterResult(wallet, chumBalance) ==
    LET R(error) == Response("tournament/register", wallet, 200, error)
    IN IF ~IsActive(currentTournament)
       THEN [response |-> R("NO_ACTIVE_TOURNAMENT"), currentTournament |-> currentTournament]
       ELSE IF now > currentTournament[1].endTime
       THEN [response |-> R("TOURNAMENT_ENDED"), currentTournament |-> currentTournament]
       ELSE IF HasKey(currentTournament[1].registrations, wallet)
       THEN [response |-> [R("") EXCEPT !.success = TRUE, !.accepted = TRUE],
             currentTournament |-> currentTournament]
       ELSE IF ~MeetsHoldRequirement(chumBalance)
       THEN [response |-> R("INSUFFICIENT_BALANCE"), currentTournament |-> currentTournament]
       ELSE [response |-> [R("") EXCEPT !.success = TRUE],
             currentTournament |->
                 <<[currentTournament[1] EXCEPT !.registrations =
                        Append(@, [wallet |-> wallet, registeredAt |-> now,
                                   balance |-> chumBalance])]>>]

TournamentRegister(wallet, chumBalance) ==
    /\ deployment = "tournament"
    /\ LET result == TournamentRegisterResult(wallet, chumBalance)
       IN /\ currentTournament' = result.currentTournament
          /\ last' = Outcome(result.response)
    /\ UNCHANGED <<inflight, deployment, now, playerRecords, gameSessions, tournamentHistory>>

\* a recordTournamentScore that adds the points up in bestScore
ScoreAccumulated(ct, wallet, points) ==
    LET scores == IF HasKey(ct[1].scores, wallet) THEN ct[1].scores
                  ELSE Append(ct[1].scores,
                              [wallet |-> wallet, bestScore |-> 0, gamesPlayed |-> 0,
                               allScores |-> <<>>, lastGameAt |-> Null])
        k == KeyIndex(scores, wallet)
        playerTourney ==
            [scores[k] EXCEPT
                !.gamesPlayed = @ + 1,
                !.lastGameAt = now,
                !.bestScore = @ + points,
                !.allScores = Append(@, [points |-> points, timestamp |-> now])]
    IN [accepted |-> TRUE,
        currentTournament |-> <<[ct[1] EXCEPT !.scores =
                                    [scores EXCEPT ![k] = playerTourney]]>>]

\* a recordTournamentScore whose log keeps the oldest 100 games
ScoreLogOldest(ct, wallet, points) ==
    LET scores == IF HasKey(ct[1].scores, wallet) THEN ct[1].scores
                  ELSE Append(ct[1].scores,
                              [wallet |-> wallet, bestScore |-> 0, gamesPlayed |-> 0,
                               allScores |-> <<>>, lastGameAt |-> Null])
        k == KeyIndex(scores, wallet)
        pushed == Append(scores[k].allScores, [points |-> points, timestamp |-> now])
        playerTourney ==
            [scores[k] EXCEPT
                !.gamesPlayed = @ + 1,
                !.lastGameAt = now,
                !.bestScore = IF points > @ THEN points ELSE @,
                !.allScores = IF Len(pushed) > ALL_SCORES_CAP
                              THEN SubSeq(pushed, 1, ALL_SCORES_CAP)
                              ELSE pushed]
    IN [accepted |-> TRUE,
        currentTournament |-> <<[ct[1] EXCEPT !.scores =
                                    [scores EXCEPT ![k] = playerTourney]]>>]

\* recordTournamentScore past its three checks: the slot it leaves behind
ScoreRecorded(ct, wallet, points) ==
    LET scores == IF HasKey(ct[1].scores, wallet) THEN ct[1].scores
                  ELSE Append(ct[1].scores,
                              [wallet |-> wallet, bestScore |-> 0, gamesPlayed |-> 0,
                               allScores |-> <<>>, lastGameAt |-> Null])
        k == KeyIndex(scores, wallet)
        pushed == Append(scores[k].allScores, [points |-> points, timestamp |-> now])
        playerTourney ==
            [scores[k] EXCEPT
                !.gamesPlayed = @ + 1,
                !.lastGameAt = now,
                !.bestScore = IF points > @ THEN points ELSE @,
                !.allScores = IF Len(pushed) > ALL_SCORES_CAP
                              THEN SubSeq(pushed, Len(pushed) - ALL_SCORES_CAP + 1,
                                          Len(pushed))
                              ELSE pushed]
    IN [accepted |-> TRUE,
        currentTournament |-> <<[ct[1] EXCEPT !.scores =
                                    [scores EXCEPT ![k] = playerTourney]]>>]

\* a recordTournamentScore that only checks that a tournament is active
RecordScoreOfAnyone(ct, wallet, points) ==
    IF ~IsActive(ct) THEN [accepted |-> FALSE, currentTournament |-> ct]
    ELSE ScoreRecorded(ct, wallet, points)

\* recordTournamentScore(wallet, points) on the tournament slot ct: what it
\* returns and the slot it leaves behind
RecordTournamentScore(ct, wallet, points) ==
    IF ~IsActive(ct) THEN [accepted |-> FALSE, currentTournament |-> ct]
    ELSE IF ~HasKey(ct[1].registrations, wallet)
    THEN [accepted |-> FALSE, currentTournament |-> ct]
    ELSE IF now > ct[1].endTime THEN [accepted |-> FALSE, currentTournament |-> ct]
    ELSE ScoreRecorded(ct, wallet, points)

RECURSIVE GamesOf(_, _)
GamesOf(records, S) ==
    IF S = {} THEN 0
    ELSE LET w == CHOOSE x \in S : TRUE
         IN records[w].gamesPlayed + GamesOf(records, S \ {w})

TotalGames(records) == GamesOf(records, DOMAIN records)

\* record-game, part_001, from the record getOrCreatePlayerRecord returned
\* on; `records` is the map with that record in it
RecordGameFrom(records, wallet, score) ==
    LET playerRecord == [records[wallet] EXCEPT !.gamesPlayed = @ + 1,
                                                !.lastGameAt = now]
        inTournament == /\ IsActive(currentTournament)
                        /\ now <= currentTournament[1].endTime
                        /\ HasKey(currentTournament[1].registrations, wallet)
        recorded == IF inTournament
                    THEN RecordTournamentScore(currentTournament, wallet, score)
                    ELSE [accepted |-> FALSE, currentTournament |-> currentTournament]
    IN [response |-> [Response("record-game", wallet, 200, "")
                         EXCEPT !.success = TRUE, !.accepted = recorded.accepted],
        playerRecords |-> SetRecord(records, wallet, playerRecord),
        currentTournament |-> recorded.currentTournament]

\* POST /api/record-game, part_001: counts the game and, in a running
\* tournament the wallet is registered for, records the score
RecordGameResult(wallet, points, finalScore) ==
    IF points = 0
    THEN [response |-> Response("record-game", wallet, 400, "MISSING_FIELDS"),
          playerRecords |-> playerRecords, currentTournament |-> currentTournament]
    ELSE RecordGameFrom(GetOrCreatePlayerRecord(playerRecords, wallet), wallet,
                        IF finalScore # 0 THEN finalScore ELSE points)

RecordGame(wallet, points, finalScore) ==
    /\ deployment = "tournament"
    /\ LET result == RecordGameResult(wallet, points, finalScore)
       IN /\ result.response.success => TotalGames(playerRecords) < MaxGames
          /\ playerRecords' = result.playerRecords
          /\ currentTournament' = result.currentTournament
          /\ last' = Outcome(result.response)
    /\ UNCHANGED <<inflight, deployment, now, gameSessions, tournamentHistory>>

\* a merge that takes the entry of the later run first when two tie
MergeTiesReversed(left, right) ==
    LET placeLeft == [i \in 1..Len(left) |->
                         i + Cardinality({j \in 1..Len(right) :
                                             right[j].bestScore >= left[i].bestScore})]
        placeRight == [j \in 1..Len(right) |->
                          j + Cardinality({i \in 1..Len(left) :
                                              left[i].bestScore > right[j].bestScore})]
    IN [k \in 1..(Len(left) + Len(right)) |->
           IF \E i \in 1..Len(left) : placeLeft[i] = k
           THEN left[CHOOSE i \in 1..Len(left) : placeLeft[i] = k]
           ELSE right[CHOOSE j \in 1..Len(right) : placeRight[j] = k]]

\* two runs sorted by (a, b) => b.bestScore - a.bestScore merged into one:
\* descending, and of two entries of equal bestScore the one of the earlier
\* run comes first (Array.prototype.sort is stable)
MergeRanked(left, right) ==
    LET placeLeft == [i \in 1..Len(left) |->
                         i + Cardinality({j \in 1..Len(right) :
                                             right[j].bestScore > left[i].bestScore})]
        placeRight == [j \in 1..Len(right) |->
                          j + Cardinality({i \in 1..Len(left) :
                                              left[i].bestScore >= right[j].bestScore})]
    IN [k \in 1..(Len(left) + Len(right)) |->
           IF \E i \in 1..Len(left) : placeLeft[i] = k
           THEN left[CHOOSE i \in 1..Len(left) : placeLeft[i] = k]
           ELSE right[CHOOSE j \in 1..Len(right) : placeRight[j] = k]]

RECURSIVE SortByBestScore(_)
\* .sort((a, b) => b.bestScore - a.bestScore), as a merge sort
SortByBestScore(entries) ==
    IF Len(entries) <= 1 THEN entries
    ELSE LET half == Len(entries) \div 2
         IN MergeRanked(SortByBestScore(SubSeq(entries, 1, half)),
                        SortByBestScore(SubSeq(entries, half + 1, Len(entries))))

GetTopScores(tournament, limit) ==
    LET sorted == SortByBestScore(tournament.scores)
        top == SubSeq(sorted, 1, Min(limit, Len(sorted)))
    IN [i \in 1..Len(top) |->
           [rank |-> i, fullWallet |-> top[i].wallet, bestScore |-> top[i].bestScore,
            gamesPlayed |-> top[i].gamesPlayed, lastGameAt |-> top[i].lastGameAt]]

\* the prize of a rank, in whole $CHUM: Math.floor(pool * fraction)
Prize(rank, totalPlayers, pool) ==
    IF rank = 1 THEN (pool * 195) \div 1000
    ELSE IF rank = 2 THEN (pool * 104) \div 1000
    ELSE IF rank = 3 THEN (pool * 65) \div 1000
    ELSE IF rank = 4 THEN (pool * 39) \div 1000
    ELSE IF rank = 5 THEN (pool * 26) \div 1000
    ELSE IF rank <= 10 THEN (pool * 13) \div 1000
    ELSE IF rank <= 25 THEN (pool * 52) \div 10000
    ELSE IF rank <= 50 THEN (pool * 325) \div 100000
    ELSE IF rank <= 100 THEN (pool * 195) \div 100000
    ELSE IF rank <= (totalPlayers * 3 + 3) \div 4 THEN (pool * 65) \div 100000
    ELSE Max(1, pool \div 10000)

RECURSIVE SumPrizesBetween(_, _, _)
\* the prizes of winners lo..hi added up, by halves
SumPrizesBetween(winners, lo, hi) ==
    IF lo > hi THEN 0
    ELSE IF lo = hi THEN winners[lo].prize
    ELSE LET mid == (lo + hi) \div 2
         IN SumPrizesBetween(winners, lo, mid) + SumPrizesBetween(winners, mid + 1, hi)

\* totalDistributed += prize over the winners from winner i on
SumPrizes(winners, i) == SumPrizesBetween(winners, i, Len(winners))

\* calculateTournamentResults; prizes are in the fixed point of the ledger
CalculateTournamentResults(tournament) ==
    LET ranked == GetTopScores(tournament, 99999)
        totalPlayers == Len(ranked)
        winners == [i \in 1..Len(ranked) |->
                       [rank |-> i, wallet |-> ranked[i].fullWallet,
                        bestScore |-> ranked[i].bestScore,
                        gamesPlayed |-> ranked[i].gamesPlayed,
                        prize |-> Chum(Prize(i, totalPlayers, tournament.prizePool))]]
    IN [totalPlayers |-> totalPlayers, totalDistributed |-> SumPrizes(winners, 1),
        prizePool |-> tournament.prizePool, winners |-> winners]

\* a credit that counts the prize as earned and leaves pendingRewards
PrizeCountedOnly(records, tournament, winner) ==
    [GetOrCreatePlayerRecord(records, winner.wallet)[winner.wallet] EXCEPT
        !.totalEarned = @ + winner.prize,
        !.earnHistory =
            Append(@, [EarnEntry(<<"tournament", tournament.id, 0>>,
                                 winner.bestScore, winner.prize, now)
                          EXCEPT !.tournamentPrize = TRUE, !.rank = winner.rank])]

\* the record of a winner after its prize was credited
PrizeCredited(records, tournament, winner) ==
    [GetOrCreatePlayerRecord(records, winner.wallet)[winner.wallet] EXCEPT
        !.totalEarned = @ + winner.prize,
        !.pendingRewards = @ + winner.prize,
        !.earnHistory =
            Append(@, [EarnEntry(<<"tournament", tournament.id, 0>>,
                                 winner.bestScore, winner.prize, now)
                          EXCEPT !.tournamentPrize = TRUE, !.rank = winner.rank])]

\* the loop of stop over results.winners from winner i on.  A wallet is a
\* key of scores and so appears once among the winners: each record is
\* touched by one pass of the loop at most.
AwardPrizes(records, tournament, winners, i) ==
    LET paid == {k \in i..Len(winners) : winners[k].prize > 0}
        PassOf(wallet) == CHOOSE k \in paid : winners[k].wallet = wallet
    IN [wallet \in (DOMAIN records) \cup {winners[k].wallet : k \in paid} |->
           IF \E k \in paid : winners[k].wallet = wallet
           THEN PrizeCredited(records, tournament, winners[PassOf(wallet)])
           ELSE records[wallet]]

\* a stop that frees the slot and pays the prizes without archiving
TournamentStopUnarchived ==
    IF ~IsActive(currentTournament)
    THEN [response |-> Response("tournament/stop", "", 400, "NO_ACTIVE_TOURNAMENT"),
          currentTournament |-> currentTournament, playerRecords |-> playerRecords,
          tournamentHistory |-> tournamentHistory]
    ELSE [response |-> [Response("tournament/stop", "", 200, "") EXCEPT !.success = TRUE],
          currentTournament |-> <<>>,
          playerRecords |->
              AwardPrizes(playerRecords, currentTournament[1],
                          CalculateTournamentResults(currentTournament[1]).winners, 1),
          tournamentHistory |-> tournamentHistory]

\* POST /admin/tournament/stop
TournamentStopResult ==
    IF ~IsActive(currentTournament)
    THEN [response |-> Response("tournament/stop", "", 400, "NO_ACTIVE_TOURNAMENT"),
          currentTournament |-> currentTournament, playerRecords |-> playerRecords,
          tournamentHistory |-> tournamentHistory]
    ELSE LET tournament == currentTournament[1]
             results == CalculateTournamentResults(tournament)
             historyEntry == [tournament |-> [tournament EXCEPT !.active = FALSE],
                              endedAt |-> now, results |-> results]
         IN [response |-> [Response("tournament/stop", "", 200, "") EXCEPT !.success = TRUE],
             currentTournament |-> <<>>,
             playerRecords |-> AwardPrizes(playerRecords, tournament, results.winners, 1),
             tournamentHistory |->
                 [id \in (DOMAIN tournamentHistory) \cup {tournament.id} |->
                     IF id = tournament.id THEN historyEntry ELSE tournamentHistory[id]]]

TournamentSettle ==
    /\ deployment = "tournament"
    /\ LET result == TournamentStopResult
       IN /\ currentTournament' = result.currentTournament
          /\ playerRecords' = result.playerRecords
          /\ tournamentHistory' = result.tournamentHistory
          /\ last' = Outcome(result.response)
    /\ UNCHANGED <<inflight, deployment, now, gameSessions>>

\* the stop handler while the earn entries stay within their bound
TournamentStop ==
    /\ TotalEntries(TournamentStopResult.playerRecords) <= MaxEntries
    /\ TournamentSettle

(***************************************************************************)
(* The clock                                                               *)
(***************************************************************************)
Tick ==
    /\ now < MaxHours * MS_PER_HOUR
    /\ now' = now + MS_PER_HOUR
    /\ last' = Outcome(Response("tick", "", 0, ""))
    /\ UNCHANGED <<inflight, deployment, playerRecords, gameSessions, currentTournament,
                   tournamentHistory>>

(***************************************************************************)
(* Requests that overlap: the async handlers of part_001 cut at their      *)
(* awaits                                                                  *)
(***************************************************************************)
Requests == 1..MaxInflight

\* the id given to the next suspended request
NextRequest ==
    CHOOSE r \in Requests \ {q.request : q \in inflight} :
        \A o \in Requests \ {q.request : q \in inflight} : r <= o

Suspended(op) == Outcome(Response(op, "", 0, "AWAIT"))

\* register up to `await getComprehensiveTokenBalance`: an answer, or the
\* request waits for the balance
RegisterSuspends(wallet) ==
    /\ IsActive(currentTournament)
    /\ now <= currentTournament[1].endTime
    /\ ~HasKey(currentTournament[1].registrations, wallet)

TournamentRegisterBegin(wallet) ==
    /\ deployment = "tournament"
    /\ IF RegisterSuspends(wallet)
       THEN /\ Cardinality(inflight) < MaxInflight
            /\ inflight' = inflight \cup
                   {[request |-> NextRequest, op |-> "tournament/register",
                     wallet |-> wallet, score |-> 0]}
            /\ last' = Suspended("tournament/register")
       ELSE /\ inflight' = inflight
            /\ last' = Outcome(TournamentRegisterResult(wallet,
                                                        MIN_HOLD_REQUIREMENT).response)
    /\ UNCHANGED <<deployment, now, playerRecords, gameSessions, currentTournament,
                   tournamentHistory>>

\* currentTournament.registrations[playerWallet] = {...}: a new key goes
\* last, an existing key keeps its place and takes the new value
SetRegistration(registrations, wallet, entry) ==
    IF HasKey(registrations, wallet)
    THEN [registrations EXCEPT ![KeyIndex(registrations, wallet)] = entry]
    ELSE Append(registrations, entry)

\* register from the returned balance on; the slot is not looked at again
\* before the write, which throws when the slot is empty
TournamentRegisterResumed(wallet, chumBalance) ==
    LET R(error) == Response("tournament/register", wallet, 200, error)
    IN IF ~MeetsHoldRequirement(chumBalance)
       THEN [response |-> R("INSUFFICIENT_BALANCE"), currentTournament |-> currentTournament]
       ELSE IF currentTournament = <<>>
       THEN [response |-> Response("tournament/register", wallet, 500, "TypeError"),
             currentTournament |-> currentTournament]
       ELSE [response |-> [R("") EXCEPT !.success = TRUE],
             currentTournament |->
                 <<[currentTournament[1] EXCEPT !.registrations =
                        SetRegistration(@, wallet,
                                        [wallet |-> wallet, registeredAt |-> now,
                                         balance |-> chumBalance])]>>]

TournamentRegisterResume(request, chumBalance) ==
    /\ deployment = "tournament"
    /\ request \in inflight
    /\ request.op = "tournament/register"
    /\ LET result == TournamentRegisterResumed(request.wallet, chumBalance)
       IN /\ currentTournament' = result.currentTournament
          /\ last' = Outcome(result.response)
    /\ inflight' = inflight \ {request}
    /\ UNCHANGED <<deployment, now, playerRecords, gameSessions, tournamentHistory>>

\* record-game up to the fetch of loadPlayerRecord: a request without its
\* points, or for a wallet in the cache, runs to its answer; for a wallet
\* that is not in the cache it waits for Firebase
RecordGameSuspends(wallet, points) == points # 0 /\ ~HasRecord(wallet)

RecordGameBegin(wallet, points, finalScore) ==
    /\ deployment = "tournament"
    /\ IF RecordGameSuspends(wallet, points)
       THEN /\ Cardinality(inflight) < MaxInflight
            /\ inflight' = inflight \cup
                   {[request |-> NextRequest, op |-> "record-game", wallet |-> wallet,
                     score |-> IF finalScore # 0 THEN finalScore ELSE points]}
            /\ last' = Suspended("record-game")
            /\ UNCHANGED <<playerRecords, currentTournament>>
       ELSE LET result == RecordGameResult(wallet, points, finalScore)
            IN /\ result.response.success => TotalGames(playerRecords) < MaxGames
               /\ playerRecords' = result.playerRecords
               /\ currentTournament' = result.currentTournament
               /\ last' = Outcome(result.response)
               /\ inflight' = inflight
    /\ UNCHANGED <<deployment, now, gameSessions, tournamentHistory>>

\* the map after getOrCreatePlayerRecord went on from the answer of Firebase:
\* the stored record, cached as a new object, or else a new record; either
\* takes the place of whatever the cache holds for the wallet by then
LoadedPlayerRecord(records, wallet, found) ==
    IF found THEN records ELSE SetRecord(records, wallet, NewRecord(wallet))

\* record-game from the answer of Firebase on.  Firebase holds a record
\* only once one was saved, and then it answers with the one saved last or,
\* when the fetch was served before that save, with nothing.
RecordGameLoaded(request, found) ==
    /\ deployment = "tournament"
    /\ request \in inflight
    /\ request.op = "record-game"
    /\ found => HasRecord(request.wallet)
    /\ LET result == RecordGameFrom(
                         LoadedPlayerRecord(playerRecords, request.wallet, found),
                         request.wallet, request.score)
       IN /\ playerRecords' = result.playerRecords
          /\ currentTournament' = result.currentTournament
          /\ last' = Outcome(result.response)
    /\ inflight' = inflight \ {request}
    /\ UNCHANGED <<deployment, now, gameSessions, tournamentHistory>>

(***************************************************************************)
(* Specifications                                                          *)
(***************************************************************************)
Init ==
    /\ deployment \in Deployments
    /\ now = 0
    /\ playerRecords = <<>>
    /\ gameSessions = <<>>
    /\ currentTournament = <<>>
    /\ tournamentHistory = <<>>
    /\ inflight = {}
    /\ last = Outcome(Response("listen", "", 0, ""))

\* the deployments whose claims have two phases
TwoPhase == deployment \in {"server", "tournament"}

\* The ledger of the three deployments.  One wallet earns and claims; in the
\* tournament deployment both wallets play one tournament of the default
\* length, holding enough to register, and the clock stands still.
Next ==
    \/ \E wallet \in LedgerWallets, points \in GamePoints, chumBalance \in Balances :
           RecordGameEarn(wallet, points, chumBalance)
    \/ \E wallet \in LedgerWallets, claimAmount \in ClaimAmounts, chumBalance \in Balances,
          vault \in Vaults, rpcThrows \in BOOLEAN, claimId \in ClaimIds :
           ClaimRewards(wallet, claimAmount, chumBalance, vault, rpcThrows, claimId)
    \/ \E wallet \in LedgerWallets, claimId \in ClaimIds, signature \in Signatures,
          claimAmount \in ClaimAmounts, polls \in PollOutcomes :
           ConfirmClaim(wallet, claimId, signature, claimAmount, polls)
    \/ \E wallet \in LedgerWallets, claimAmount \in ClaimAmounts, chumBalance \in Balances,
          claimId \in ClaimIds :
           ClaimRewardsSplit(wallet, claimAmount, chumBalance, claimId)
    \/ \E prizePool \in SettledPrizePools : TournamentStart(0, prizePool)
    \/ \E wallet \in Wallets : TournamentRegister(wallet, MIN_HOLD_REQUIREMENT)
    \/ \E wallet \in Wallets, points \in SettledPoints : RecordGame(wallet, points, 0)
    \/ TournamentStop

Spec == Init /\ [][Next]_vars

\* The ledger together with verify-eligibility
LedgerNext ==
    \/ Next
    \/ \E wallet \in LedgerWallets, chumBalance \in Balances :
           VerifyEligibility(wallet, chumBalance)

LedgerSpec == Init /\ [][LedgerNext]_vars

\* The tournament engine of part_001 under the clock, with every answer of
\* its handlers
TournamentInit ==
    /\ Init
    /\ deployment = "tournament"

TournamentNext ==
    \/ \E duration \in Durations, prizePool \in PrizePools :
           TournamentStart(duration, prizePool)
    \/ \E wallet \in Wallets, chumBalance \in Balances :
           TournamentRegister(wallet, chumBalance)
    \/ \E wallet \in Wallets, points \in TournamentPoints, finalScore \in FinalScores :
           RecordGame(wallet, points, finalScore)
    \/ TournamentStop
    \/ Tick

TournamentSpec == TournamentInit /\ [][TournamentNext]_vars

\* Register requests that overlap: each waits for the balance of its wallet
\* while other requests, stop and the clock go on
RegisterRaceNext ==
    \/ \E duration \in Durations, prizePool \in SettledPrizePools :
           TournamentStart(duration, prizePool)
    \/ \E wallet \in Wallets : TournamentRegisterBegin(wallet)
    \/ \E request \in inflight, chumBalance \in Balances :
           TournamentRegisterResume(request, chumBalance)
    \/ TournamentStop
    \/ Tick

RegisterRaceSpec == TournamentInit /\ [][RegisterRaceNext]_vars

\* record-game requests that overlap: each waits for Firebase when its
\* wallet is not in the cache, in and out of a tournament
GameRaceNext ==
    \/ \E prizePool \in SettledPrizePools : TournamentStart(0, prizePool)
    \/ \E wallet \in Wallets : TournamentRegister(wallet, MIN_HOLD_REQUIREMENT)
    \/ \E wallet \in Wallets, points \in SettledPoints : RecordGameBegin(wallet, points, 0)
    \/ \E request \in inflight, found \in BOOLEAN : RecordGameLoaded(request, found)
    \/ TournamentStop

GameRaceSpec == TournamentInit /\ [][GameRaceNext]_vars

\* The ledger of the two-phase deployments with every number a confirm-claim
\* request can carry as claimAmount, negative ones included
SignedClaimAmounts == ClaimAmounts \cup {0 - Chum(6)}

SignedInit ==
    /\ Init
    /\ TwoPhase

\* what the lookups of a confirm-claim request answer here: the first status
\* poll confirms, or nothing confirms
SignedPollOutcomes == {PollsMade(status, "processed", "null") :
                          status \in {"confirmed", "processed"}}

SignedNext ==
    \/ \E wallet \in LedgerWallets, points \in GamePoints :
           RecordGameEarn(wallet, points, MIN_HOLD_REQUIREMENT)
    \/ \E wallet \in LedgerWallets, claimAmount \in ClaimAmounts, vault \in Vaults,
          claimId \in ClaimIds :
           ClaimRewards(wallet, claimAmount, MIN_HOLD_REQUIREMENT, vault, FALSE, claimId)
    \/ \E wallet \in LedgerWallets, claimId \in ClaimIds, signature \in Signatures,
          claimAmount \in SignedClaimAmounts, polls \in SignedPollOutcomes :
           ConfirmClaim(wallet, claimId, signature, claimAmount, polls)
    \/ \E prizePool \in SettledPrizePools : TournamentStart(0, prizePool)
    \/ \E wallet \in LedgerWallets : TournamentRegister(wallet, MIN_HOLD_REQUIREMENT)
    \/ \E wallet \in LedgerWallets, points \in SettledPoints : RecordGame(wallet, points, 0)
    \/ TournamentStop

SignedSpec == SignedInit /\ [][SignedNext]_vars

\* The workflow of one wallet from verification to the settled claim, under
\* the clock: verify, play, build a claim for all that is pending, confirm
WorkflowBalances == {MIN_HOLD_REQUIREMENT - 1, 30000}
WorkflowPoints == {2999, 3000}
FundedVault == [exists |-> TRUE, rawBalance |-> 2000000000, decimals |-> 2]

WorkflowNext ==
    \/ \E wallet \in LedgerWallets, chumBalance \in WorkflowBalances :
           VerifyEligibility(wallet, chumBalance)
    \/ \E wallet \in LedgerWallets, points \in WorkflowPoints,
          chumBalance \in WorkflowBalances :
           RecordGameEarn(wallet, points, chumBalance)
    \/ \E wallet \in LedgerWallets, points \in WorkflowPoints : RecordGame(wallet, points, 0)
    \/ \E wallet \in LedgerWallets, chumBalance \in WorkflowBalances, claimId \in ClaimIds :
           ClaimRewards(wallet, 0, chumBalance, FundedVault, FALSE, claimId)
    \/ \E wallet \in LedgerWallets, claimId \in ClaimIds, signature \in Signatures,
          polls \in SignedPollOutcomes :
           ConfirmClaim(wallet, claimId, signature, 0, polls)
    \/ \E wallet \in LedgerWallets, chumBalance \in WorkflowBalances, claimId \in ClaimIds :
           ClaimRewardsSplit(wallet, 0, chumBalance, claimId)
    \/ Tick

WorkflowSpec == Init /\ [][WorkflowNext]_vars

\* Settlement under the clock: one wallet earns entries of 1 and of 3 $CHUM
\* at different times and claims 2 $CHUM or all that is pending, by build and
\* confirm in src/server.js and in one phase in part_000.
SettlementPoints == {POINTS_PER_CHUM_SERVER, 3 * POINTS_PER_CHUM_SERVER}
SettlementAmounts == {0, Chum(2)}
SettlementClaimIds == {"c1", "c2"}

SettlementInit ==
    /\ Init
    /\ deployment \in {"server", "split"}

SettlementNext ==
    \/ \E wallet \in LedgerWallets, points \in SettlementPoints :
           RecordGameEarn(wallet, points, MIN_HOLD_REQUIREMENT)
    \/ \E wallet \in LedgerWallets, claimAmount \in SettlementAmounts,
          claimId \in SettlementClaimIds :
           ClaimRewards(wallet, claimAmount, MIN_HOLD_REQUIREMENT, FundedVault, FALSE, claimId)
    \/ \E wallet \in LedgerWallets, claimId \in SettlementClaimIds,
          signature \in Signatures, claimAmount \in SettlementAmounts,
          polls \in SignedPollOutcomes :
           ConfirmClaim(wallet, claimId, signature, claimAmount, polls)
    \/ \E wallet \in LedgerWallets, claimAmount \in SettlementAmounts,
          claimId \in SettlementClaimIds :
           ClaimRewardsSplit(wallet, claimAmount, MIN_HOLD_REQUIREMENT, claimId)
    \/ Tick

SettlementSpec == SettlementInit /\ [][SettlementNext]_vars

\* Claims in two phases with the built transactions in the client's hands:
\* a successful claim-rewards hands out a transfer of the amount it built,
\* which stays outstanding until a confirm-claim for it succeeds.  The client
\* confirms with the claimId and the claimAmount of the build's answer.
ClaimRewardsBuilt(wallet, claimId) ==
    /\ TwoPhase
    /\ LET result == ClaimRewardsResult(wallet, 0, MIN_HOLD_REQUIREMENT, FundedVault,
                                        FALSE, claimId)
       IN /\ playerRecords' = result.playerRecords
          /\ last' = Outcome(result.response)
          /\ IF result.response.success
             THEN /\ Cardinality(inflight) < MaxInflight
                  /\ inflight' = inflight \cup
                         {[request |-> NextRequest, op |-> "transaction",
                           wallet |-> wallet, score |-> 0, claimId |-> claimId,
                           amount |-> result.response.amount]}
             ELSE inflight' = inflight
    /\ UNCHANGED <<deployment, now, gameSessions, currentTournament, tournamentHistory>>

ConfirmClaimBuilt(transaction, signature, polls) ==
    /\ TwoPhase
    /\ transaction \in inflight
    /\ transaction.op = "transaction"
    /\ LET result == ConfirmClaimResult(transaction.wallet, transaction.claimId, signature,
                                        transaction.amount, polls)
       IN /\ \A w \in DOMAIN result.playerRecords :
                 WithinClaimBound(result.playerRecords[w])
          /\ playerRecords' = result.playerRecords
          /\ last' = Outcome(result.response)
          /\ inflight' = IF result.response.success THEN inflight \ {transaction}
                         ELSE inflight
    /\ UNCHANGED <<deployment, now, gameSessions, currentTournament, tournamentHistory>>

BuildRaceInit ==
    /\ Init
    /\ TwoPhase

BuildRaceNext ==
    \/ \E wallet \in LedgerWallets : RecordGameEarn(wallet, 3 * POINTS_PER_CHUM_SERVER,
                                                    MIN_HOLD_REQUIREMENT)
    \/ \E wallet \in LedgerWallets, claimId \in SettlementClaimIds :
           ClaimRewardsBuilt(wallet, claimId)
    \/ \E transaction \in inflight, signature \in Signatures, polls \in SignedPollOutcomes :
           ConfirmClaimBuilt(transaction, signature, polls)
    \/ \E prizePool \in SettledPrizePools : TournamentStart(0, prizePool)
    \/ \E wallet \in Wallets : TournamentRegister(wallet, MIN_HOLD_REQUIREMENT)
    \/ \E wallet \in Wallets, points \in SettledPoints : RecordGame(wallet, points, 0)
    \/ TournamentStop

BuildRaceSpec == BuildRaceInit /\ [][BuildRaceNext]_vars

\* part_001 with FIREBASE_DB_URL set.  loadAllPlayersFromFirebase() is called
\* without await when the module is loaded: the server takes requests while
\* the fetch of `players` is in flight, and when the answer is there every
\* record of it is put into the cache.  StoredPlayers is what Firebase holds
\* when the server starts, saved by an earlier run; the fetch is served then.
StoredPlayers ==
    [wallet \in {"A"} |->
        [NewRecord(wallet) EXCEPT !.balance = MIN_HOLD_REQUIREMENT, !.gamesPlayed = 1,
                                  !.lastGameAt = 0, !.verifiedAt = 0]]

\* the wallet's record is where a handler finds it without asking Firebase,
\* or Firebase has none for it
Cached(wallet) == HasRecord(wallet) \/ wallet \notin DOMAIN StoredPlayers

\* the rest of loadAllPlayersFromFirebase, from the answer of Firebase on
LoadAllPlayersFromFirebase(request) ==
    /\ deployment = "tournament"
    /\ request \in inflight
    /\ request.op = "startup-load"
    /\ playerRecords' = [wallet \in (DOMAIN playerRecords) \cup (DOMAIN StoredPlayers) |->
                             IF wallet \in DOMAIN StoredPlayers
                             THEN StoredPlayers[wallet]
                             ELSE playerRecords[wallet]]
    /\ inflight' = inflight \ {request}
    /\ last' = [Outcome(Response("startup-load", "", 0, "")) EXCEPT !.success = TRUE]
    /\ UNCHANGED <<deployment, now, gameSessions, currentTournament, tournamentHistory>>

\* loadPlayerRecord: the cached record, or else the one Firebase holds, which
\* is cached
LoadPlayerRecord(records, wallet) ==
    IF wallet \in DOMAIN records THEN records
    ELSE IF wallet \in DOMAIN StoredPlayers
    THEN SetRecord(records, wallet, StoredPlayers[wallet])
    ELSE records

\* GET /api/player/:wallet
PlayerStats(wallet) ==
    /\ deployment = "tournament"
    /\ playerRecords' = LoadPlayerRecord(playerRecords, wallet)
    /\ last' = IF wallet \in DOMAIN playerRecords'
               THEN [Outcome(Response("player", wallet, 200, "")) EXCEPT !.success = TRUE]
               ELSE Outcome(Response("player", wallet, 404, "PLAYER_NOT_FOUND"))
    /\ UNCHANGED <<inflight, deployment, now, gameSessions, currentTournament,
                   tournamentHistory>>

StartupInit ==
    /\ deployment = "tournament"
    /\ now = 0
    /\ playerRecords = <<>>
    /\ gameSessions = <<>>
    /\ currentTournament = <<>>
    /\ tournamentHistory = <<>>
    /\ inflight = {[request |-> 1, op |-> "startup-load", wallet |-> "", score |-> 0]}
    /\ last = Outcome(Response("listen", "", 0, ""))

StartupNext ==
    \/ \E request \in inflight : LoadAllPlayersFromFirebase(request)
    \/ \E wallet \in Wallets : PlayerStats(wallet)
    \/ \E wallet \in Wallets, chumBalance \in WorkflowBalances :
           Cached(wallet) /\ VerifyEligibility(wallet, chumBalance)
    \/ \E wallet \in Wallets, points \in SettledPoints :
           Cached(wallet) /\ RecordGame(wallet, points, 0)
    \/ Tick

StartupSpec == StartupInit /\ [][StartupNext]_vars

\* part_001 with FIREBASE_DB_URL set: what savePlayerRecord sends.  The PUT
\* is not awaited; it is a message in flight until Firebase has stored it.
HISTORY_LIMIT == 200

\* toSave: the record with earnHistory.slice(-200) when it is longer
ToSave(record) ==
    IF Len(record.earnHistory) > HISTORY_LIMIT
    THEN [record EXCEPT !.earnHistory =
             SubSeq(@, Len(@) - HISTORY_LIMIT + 1, Len(@))]
    ELSE record

\* the record of a wallet that won 1 $CHUM in each of `entries` earlier
\* tournaments, an hour apart, and has claimed the oldest `claimed` of them
SeededHistory(wallet, entries, claimed) ==
    [NewRecord(wallet) EXCEPT
        !.balance = MIN_HOLD_REQUIREMENT,
        !.totalEarned = Chum(entries),
        !.totalClaimed = Chum(claimed),
        !.pendingRewards = Chum(entries - claimed),
        !.lastClaimAt = IF claimed > 0 THEN 0 ELSE Null,
        !.earnHistory =
            [i \in 1..entries |->
                [EarnEntry(<<"tournament", (i - entries - 1) * MS_PER_HOUR, 0>>, 100,
                           Chum(1), (i - entries - 1) * MS_PER_HOUR)
                    EXCEPT !.tournamentPrize = TRUE, !.rank = 1,
                           !.claimed = (i <= claimed),
                           !.claimedAt = IF i <= claimed THEN 0 ELSE Null,
                           !.claimId = IF i <= claimed THEN "c1" ELSE "",
                           !.signature = IF i <= claimed THEN "s1" ELSE ""]]]

\* POST /api/verify-eligibility with its savePlayerRecord
VerifyEligibilitySaved(wallet, chumBalance) ==
    /\ deployment = "tournament"
    /\ LET result == VerifyEligibilityResult(wallet, chumBalance)
       IN /\ playerRecords' = result.playerRecords
          /\ last' = Outcome(result.response)
          /\ IF result.response.success
             THEN /\ Cardinality(inflight) < MaxInflight
                  /\ inflight' = inflight \cup
                         {[request |-> NextRequest, op |-> "firebase-put",
                           wallet |-> wallet, score |-> 0,
                           data |-> ToSave(result.playerRecords[wallet])]}
             ELSE inflight' = inflight
    /\ UNCHANGED <<deployment, now, gameSessions, currentTournament, tournamentHistory>>

\* firebaseSave: Firebase has answered the PUT
FirebaseSave(request) ==
    /\ request \in inflight
    /\ request.op = "firebase-put"
    /\ inflight' = inflight \ {request}
    /\ last' = [Outcome(Response("firebase-put", "", 200, "")) EXCEPT !.success = TRUE]
    /\ UNCHANGED <<deployment, now, playerRecords, gameSessions, currentTournament,
                   tournamentHistory>>

SaveInit ==
    /\ deployment = "tournament"
    /\ now = 0
    /\ \E entries \in {0, 1, 2, HISTORY_LIMIT - 1, HISTORY_LIMIT, MaxHistory - 1, MaxHistory} :
       \E claimed \in {0, 1, 2, entries - 2, entries - 1, entries} \cap 0..entries :
           playerRecords = [wallet \in LedgerWallets |->
                               SeededHistory(wallet, entries, claimed)]
    /\ gameSessions = <<>>
    /\ currentTournament = <<>>
    /\ tournamentHistory = <<>>
    /\ inflight = {}
    /\ last = Outcome(Response("listen", "", 0, ""))

SaveNext ==
    \/ \E wallet \in LedgerWallets, chumBalance \in WorkflowBalances :
           VerifyEligibilitySaved(wallet, chumBalance)
    \/ \E request \in inflight : FirebaseSave(request)
    \/ Tick

SaveSpec == SaveInit /\ [][SaveNext]_vars

\* The score log: a running tournament in which wallet A has submitted
\* `games` scores so far, game i scoring 10 * i; A and the unregistered B go
\* on playing under the clock.
SeededGames == {ALL_SCORES_CAP - 2, ALL_SCORES_CAP - 1, ALL_SCORES_CAP, ALL_SCORES_CAP + 1}

SeededScoreLog(wallet, games) ==
    [id |-> 0, name |-> "BullShark Weekly Tournament", active |-> TRUE,
     startTime |-> 0, endTime |-> DEFAULT_DURATION_HOURS * MS_PER_HOUR,
     durationHours |-> DEFAULT_DURATION_HOURS, prizePool |-> DEFAULT_PRIZE_POOL,
     registrations |-> <<[wallet |-> wallet, registeredAt |-> 0,
                          balance |-> MIN_HOLD_REQUIREMENT]>>,
     scores |-> <<[wallet |-> wallet, bestScore |-> 10 * games, gamesPlayed |-> games,
                   allScores |-> [i \in 1..Min(games, ALL_SCORES_CAP) |->
                                     [points |-> 10 * (i + games
                                                         - Min(games, ALL_SCORES_CAP)),
                                      timestamp |-> 0]],
                   lastGameAt |-> 0]>>,
     createdAt |-> 0]

\* POST /api/record-game, part_001, for as long as the wallet has played
\* fewer than MaxSubmissions games
RecordGameLogged(wallet, points) ==
    /\ deployment = "tournament"
    /\ LET result == RecordGameResult(wallet, points, 0)
       IN /\ result.playerRecords[wallet].gamesPlayed <= MaxSubmissions
          /\ result.response.accepted
                 \/ result.playerRecords[wallet].gamesPlayed <= MaxGames
          /\ playerRecords' = result.playerRecords
          /\ currentTournament' = result.currentTournament
          /\ last' = Outcome(result.response)
    /\ UNCHANGED <<inflight, deployment, now, gameSessions, tournamentHistory>>

ScoreLogInit ==
    /\ deployment = "tournament"
    /\ now = 0
    /\ \E games \in SeededGames :
           /\ currentTournament = <<SeededScoreLog("A", games)>>
           /\ playerRecords = [wallet \in {"A"} |->
                                   [NewRecord(wallet) EXCEPT !.gamesPlayed = games,
                                                             !.lastGameAt = 0]]
    /\ gameSessions = <<>>
    /\ tournamentHistory = <<>>
    /\ inflight = {}
    /\ last = Outcome([Response("record-game", "", 200, "")
                          EXCEPT !.success = TRUE, !.accepted = TRUE])

ScoreLogNext ==
    \/ \E wallet \in Wallets, points \in SettledPoints : RecordGameLogged(wallet, points)
    \/ Tick

ScoreLogSpec == ScoreLogInit /\ [][ScoreLogNext]_vars

\* POST /admin/tournament/stop with FIREBASE_DB_URL set, cut at
\* `await firebaseSave(tournaments/history/...)`: the results are computed
\* and the history entry is sent before it, the prizes are awarded and the
\* slot is cleared after it.  The awaits of the loop find the records in the
\* cache and do no I/O.
TournamentStopBegin ==
    /\ deployment = "tournament"
    /\ IF IsActive(currentTournament)
       THEN /\ Cardinality(inflight) < MaxInflight
            /\ inflight' = inflight \cup
                   {[request |-> NextRequest, op |-> "tournament/stop", wallet |-> "",
                     score |-> 0,
                     results |-> CalculateTournamentResults(currentTournament[1])]}
            /\ tournamentHistory' = TournamentStopResult.tournamentHistory
            /\ last' = Suspended("tournament/stop")
       ELSE /\ inflight' = inflight
            /\ tournamentHistory' = tournamentHistory
            /\ last' = Outcome(TournamentStopResult.response)
    /\ UNCHANGED <<deployment, now, playerRecords, gameSessions, currentTournament>>

\* the loop over results.winners when the slot is null by then: the first
\* winner with a prize is credited, then `currentTournament.id` throws
CreditedBeforeThrow(records, winners) ==
    LET paid == {k \in 1..Len(winners) : winners[k].prize > 0}
    IN IF paid = {} THEN records
       ELSE LET first == winners[CHOOSE k \in paid : \A j \in paid : k <= j]
                created == GetOrCreatePlayerRecord(records, first.wallet)
            IN SetRecord(created, first.wallet,
                         [created[first.wallet] EXCEPT
                             !.totalEarned = @ + first.prize,
                             !.pendingRewards = @ + first.prize])

TournamentStopResume(request) ==
    /\ deployment = "tournament"
    /\ request \in inflight
    /\ request.op = "tournament/stop"
    /\ LET winners == request.results.winners
           thrown == currentTournament = <<>>
                         /\ \E k \in 1..Len(winners) : winners[k].prize > 0
           records == IF currentTournament = <<>>
                      THEN CreditedBeforeThrow(playerRecords, winners)
                      ELSE AwardPrizes(playerRecords, currentTournament[1], winners, 1)
       IN /\ TotalEntries(records) <= MaxEntries
          /\ playerRecords' = records
          /\ currentTournament' = IF thrown THEN currentTournament ELSE <<>>
          /\ last' = IF thrown
                     THEN Outcome(Response("tournament/stop", "", 500, "EXCEPTION"))
                     ELSE Outcome([Response("tournament/stop", "", 200, "")
                                      EXCEPT !.success = TRUE])
    /\ inflight' = inflight \ {request}
    /\ UNCHANGED <<deployment, now, gameSessions, tournamentHistory>>

StopRaceNext ==
    \/ \E prizePool \in SettledPrizePools : TournamentStart(0, prizePool)
    \/ \E wallet \in Wallets : TournamentRegister(wallet, MIN_HOLD_REQUIREMENT)
    \/ \E wallet \in Wallets, points \in SettledPoints : RecordGame(wallet, points, 0)
    \/ TournamentStopBegin
    \/ \E request \in inflight : TournamentStopResume(request)

StopRaceSpec == TournamentInit /\ [][StopRaceNext]_vars

\* POST /api/cosign-claim, part_001.  The request carries a serialized
\* transaction signed by the player: one that claim-rewards built, or any
\* other transfer out of the vault that the client put together itself.
\* The handler deserializes it, adds the authority's signature and returns
\* it; the signed transaction is a message in flight from then on.
ForgedTransactions ==
    {[request |-> 0, op |-> "transaction", wallet |-> "B", score |-> 0,
      claimId |-> "", amount |-> Chum(1000)]}

CosignClaim(signedTransaction) ==
    /\ deployment = "tournament"
    /\ signedTransaction \in inflight \/ Cardinality(inflight) < MaxInflight
    /\ inflight' = (inflight \ {signedTransaction}) \cup
           {[signedTransaction EXCEPT
                !.op = "signed",
                !.request = IF signedTransaction \in inflight THEN @ ELSE NextRequest]}
    /\ last' = [Outcome(Response("cosign-claim", signedTransaction.wallet, 200, ""))
                   EXCEPT !.success = TRUE]
    /\ UNCHANGED <<deployment, now, playerRecords, gameSessions, currentTournament,
                   tournamentHistory>>

\* The claim flow of part_001: prizes are won, claims are built, co-signed
\* and confirmed, with whatever the requests carry
ClaimFlowNext ==
    \/ \E prizePool \in SettledPrizePools : TournamentStart(0, prizePool)
    \/ \E wallet \in LedgerWallets : TournamentRegister(wallet, MIN_HOLD_REQUIREMENT)
    \/ \E wallet \in LedgerWallets, points \in SettledPrizePools : RecordGame(wallet, points, 0)
    \/ TournamentStop
    \/ \E wallet \in LedgerWallets, claimId \in ClaimIds :
           ClaimRewardsBuilt(wallet, claimId)
    \/ \E signedTransaction \in {t \in inflight : t.op = "transaction"}
                                    \cup ForgedTransactions :
           CosignClaim(signedTransaction)
    \/ \E wallet \in LedgerWallets, claimId \in ClaimIds,
          signature \in Signatures, claimAmount \in SettlementAmounts,
          polls \in SignedPollOutcomes :
           ConfirmClaim(wallet, claimId, signature, claimAmount, polls)

ClaimFlowSpec == TournamentInit /\ [][ClaimFlowNext]_vars

\* The prize table: a tournament of any of the seeded pools in which any
\* number of wallets up to MaxPlayers registered and played one game each,
\* wallet i scoring better than wallet i + 1, is stopped.  The first wallet
\* may hold a prize of an earlier tournament.
SeededPools == {1, 5, 100, 1000, DEFAULT_PRIZE_POOL}

SeededWallet(i) == ToString(i)

SeededTournament(pool, players) ==
    [id |-> 0, name |-> "BullShark Weekly Tournament", active |-> TRUE,
     startTime |-> 0, endTime |-> DEFAULT_DURATION_HOURS * MS_PER_HOUR,
     durationHours |-> DEFAULT_DURATION_HOURS, prizePool |-> pool,
     registrations |-> [i \in 1..players |->
                           [wallet |-> SeededWallet(i), registeredAt |-> 0,
                            balance |-> MIN_HOLD_REQUIREMENT]],
     scores |-> [i \in 1..players |->
                    [wallet |-> SeededWallet(i), bestScore |-> (MaxPlayers + 2 - i) * 10,
                     gamesPlayed |-> 1,
                     allScores |-> <<[points |-> (MaxPlayers + 2 - i) * 10,
                                      timestamp |-> 0]>>,
                     lastGameAt |-> 0]],
     createdAt |-> 0]

\* the record of a wallet that holds the first prize of an earlier
\* tournament of 100 $CHUM, unclaimed
SeededWinner(wallet) ==
    [NewRecord(wallet) EXCEPT
        !.gamesPlayed = 1, !.lastGameAt = 0,
        !.totalEarned = Chum(Prize(1, 1, 100)),
        !.pendingRewards = Chum(Prize(1, 1, 100)),
        !.earnHistory = <<[EarnEntry(<<"tournament", 0 - MS_PER_HOUR, 0>>, 100,
                                     Chum(Prize(1, 1, 100)), 0)
                              EXCEPT !.tournamentPrize = TRUE, !.rank = 1]>>]

PrizeInit ==
    /\ deployment = "tournament"
    /\ now = 0
    /\ \E pool \in SeededPools, players \in 0..MaxPlayers, earlier \in BOOLEAN :
           /\ currentTournament = <<SeededTournament(pool, players)>>
           /\ playerRecords =
                  [wallet \in {SeededWallet(i) : i \in 1..players} |->
                      IF earlier /\ wallet = SeededWallet(1)
                      THEN SeededWinner(wallet)
                      ELSE [NewRecord(wallet) EXCEPT !.gamesPlayed = 1, !.lastGameAt = 0]]
    /\ gameSessions = <<>>
    /\ tournamentHistory = <<>>
    /\ inflight = {}
    /\ last = Outcome([Response("record-game", "", 200, "") EXCEPT !.success = TRUE])

PrizeNext == TournamentSettle

PrizeSpec == PrizeInit /\ [][PrizeNext]_vars

(***************************************************************************)
(* Properties of the reward ledger, checked under Spec                     *)
(***************************************************************************)
RECURSIVE SumChumEarned(_, _, _)
\* the sum of chumEarned over the entries from entry i on whose claimed flag
\* is `claimed`
SumChumEarned(earnHistory, i, claimed) ==
    IF i > Len(earnHistory) THEN 0
    ELSE (IF earnHistory[i].claimed = claimed THEN earnHistory[i].chumEarned ELSE 0)
         + SumChumEarned(earnHistory, i + 1, claimed)

\* C1: for every wallet, in every reachable state of the ledger,
\* pendingRewards = totalEarned - totalClaimed.
C1_PendingIsEarnedMinusClaimed ==
    \A w \in DOMAIN playerRecords :
        playerRecords[w].pendingRewards
            = playerRecords[w].totalEarned - playerRecords[w].totalClaimed

Established(polls) ==
    \E i \in 1..Len(polls) : polls[i] \in {"confirmed", "finalized", "ok"}

\* C3: confirm-claim changes the player records only if a lookup established
\* the confirmation; otherwise it answers TX_NOT_CONFIRMED and leaves them.
C3_ConfirmOnlyWhenEstablished ==
    TwoPhase =>
        \A wallet \in Wallets, claimId \in ClaimIds, signature \in Signatures,
           claimAmount \in ClaimAmounts, polls \in PollOutcomes :
            LET result == ConfirmClaimResult(wallet, claimId, signature, claimAmount, polls)
            IN /\ ~Established(polls) =>
                      /\ result.response.error = "TX_NOT_CONFIRMED"
                      /\ ~result.response.success
                      /\ result.playerRecords = playerRecords
               /\ result.playerRecords # playerRecords => Established(polls)

\* an unconfirmed confirm-claim was answered and the rewards are still pending
C3_UnconfirmedStaysPending ==
    /\ TwoPhase
    /\ last.op = "confirm-claim"
    /\ last.error = "TX_NOT_CONFIRMED"
    /\ \E w \in DOMAIN playerRecords :
           /\ playerRecords[w].pendingRewards > 0
           /\ playerRecords[w].lastClaimAt = Null

\* C4: a second confirmed confirm-claim with the same wallet, claimId,
\* signature and amount leaves totalClaimed and pendingRewards as the first
\* left them.
C4_SecondConfirmKeepsTotals ==
    TwoPhase =>
        \A w \in DOMAIN playerRecords, claimId \in ClaimIds, signature \in Signatures,
           claimAmount \in ClaimAmounts :
            LET once == ConfirmedRecord(playerRecords[w], claimAmount, claimId, signature)
                twice == ConfirmedRecord(once, claimAmount, claimId, signature)
            IN /\ twice.totalClaimed = once.totalClaimed
               /\ twice.pendingRewards = once.pendingRewards

\* the entries of a record add up to its totals
EntriesSumToTotals(playerRecord) ==
    /\ SumChumEarned(playerRecord.earnHistory, 1, FALSE) = playerRecord.pendingRewards
    /\ SumChumEarned(playerRecord.earnHistory, 1, TRUE) = playerRecord.totalClaimed

\* C5: in the two-phase workflow the unclaimed entries sum to pendingRewards
\* and the claimed entries to totalClaimed, after any confirmed full or
\* partial claim of a record whose entries summed up before it.
C5_EntriesSumAfterClaim ==
    TwoPhase =>
        \A w \in DOMAIN playerRecords, claimId \in ClaimIds, signature \in Signatures,
           claimAmount \in ClaimAmounts :
            (/\ EntriesSumToTotals(playerRecords[w])
             /\ claimAmount <= playerRecords[w].pendingRewards)
            => EntriesSumToTotals(ConfirmedRecord(playerRecords[w], claimAmount,
                                                  claimId, signature))

\* C6: a build request for more than the pending rewards is rejected: it
\* never succeeds with another amount.
C6_OverclaimRejected ==
    TwoPhase =>
        \A wallet \in DOMAIN playerRecords, claimAmount \in ClaimAmounts,
           chumBalance \in Balances, vault \in Vaults, rpcThrows \in BOOLEAN,
           claimId \in ClaimIds :
            claimAmount > playerRecords[wallet].pendingRewards =>
                ~ClaimRewardsResult(wallet, claimAmount, chumBalance, vault, rpcThrows,
                                    claimId).response.success

RECURSIVE UnclaimedBefore(_, _)
\* the sum of chumEarned over the unclaimed entries before entry i
UnclaimedBefore(earnHistory, i) ==
    IF i <= 1 THEN 0
    ELSE UnclaimedBefore(earnHistory, i - 1)
         + (IF earnHistory[i - 1].claimed THEN 0 ELSE earnHistory[i - 1].chumEarned)

\* what a claim of amount a makes of the record old: whole entries claimed in
\* insertion order while they fit, the first that does not fit split
SplitSettles(old, new, a) ==
    LET h == old.earnHistory
        g == new.earnHistory
        split == {i \in 1..Len(h) : /\ ~h[i].claimed
                                    /\ UnclaimedBefore(h, i) < a
                                    /\ UnclaimedBefore(h, i) + h[i].chumEarned > a}
    IN /\ new.pendingRewards = old.pendingRewards - a
       /\ new.pendingRewards = SumChumEarned(g, 1, FALSE)
       /\ Cardinality(split) <= 1
       /\ Len(g) = Len(h) + Cardinality(split)
       /\ \A i \in 1..Len(h) :
              LET before == UnclaimedBefore(h, i)
              IN IF h[i].claimed \/ before >= a THEN g[i] = h[i]
                 ELSE IF before + h[i].chumEarned <= a
                 THEN /\ g[i].claimed
                      /\ g[i].chumEarned = h[i].chumEarned
                      /\ g[i].claimedAmount = Null
                 ELSE /\ g[i].claimed
                      /\ g[i].claimedAmount = a - before
                      /\ g[i].remainingAmount = h[i].chumEarned - (a - before)
                      /\ g[Len(g)].isRemainder
                      /\ ~g[Len(g)].claimed
                      /\ g[Len(g)].chumEarned = h[i].chumEarned - (a - before)

\* entries 5, 3 and 8 after a claim of 6
ExampleSettled(earnHistory) ==
    /\ Len(earnHistory) = 4
    /\ earnHistory[1].chumEarned = Chum(5) /\ earnHistory[1].claimed
    /\ earnHistory[1].claimedAmount = Null
    /\ earnHistory[2].chumEarned = Chum(3) /\ earnHistory[2].claimed
    /\ earnHistory[2].claimedAmount = Chum(1) /\ earnHistory[2].remainingAmount = Chum(2)
    /\ earnHistory[3].chumEarned = Chum(8) /\ ~earnHistory[3].claimed
    /\ earnHistory[4].chumEarned = Chum(2) /\ ~earnHistory[4].claimed
    /\ earnHistory[4].isRemainder

\* C7: the one-phase claim of part_000 with 0 < a <= pendingRewards marks
\* whole entries in insertion order while they fit, splits the first that does
\* not, and leaves pendingRewards, decreased by a, equal to the sum over the
\* unclaimed entries; entries 5, 3, 8 and a = 6 give 5 claimed, 3 split 1 / 2,
\* 8 unclaimed and a remainder of 2.
C7_SplitSettlesInOrder ==
    deployment = "split" =>
        \A w \in DOMAIN playerRecords, claimId \in ClaimIds :
            LET old == playerRecords[w]
                h == old.earnHistory
            IN /\ \A k \in 1..(old.pendingRewards \div FixedPoint) :
                      LET result == ClaimRewardsSplitResult(w, Chum(k),
                                                            MIN_HOLD_REQUIREMENT, claimId)
                      IN /\ result.response.success
                         /\ SplitSettles(old, result.playerRecords[w], Chum(k))
               /\ (/\ Len(h) = 3
                   /\ \A i \in 1..3 : ~h[i].claimed
                   /\ h[1].chumEarned = Chum(5)
                   /\ h[2].chumEarned = Chum(3)
                   /\ h[3].chumEarned = Chum(8))
                  => ExampleSettled(ClaimRewardsSplitResult(
                                        w, Chum(6), MIN_HOLD_REQUIREMENT,
                                        claimId).playerRecords[w].earnHistory)

\* the claim of 6 against the entries 5, 3 and 8 was answered
C7_ExampleClaimed ==
    /\ deployment = "split"
    /\ last.op = "claim-rewards"
    /\ last.success
    /\ \E w \in DOMAIN playerRecords :
           /\ ExampleSettled(playerRecords[w].earnHistory)
           /\ playerRecords[w].pendingRewards = Chum(10)
           /\ playerRecords[w].totalClaimed = Chum(6)

(***************************************************************************)
(* Properties of the tournament engine, checked under TournamentSpec       *)
(***************************************************************************)
\* the wallet has an entry in the registrations of the tournament in the slot
Registered(wallet) ==
    /\ currentTournament # <<>>
    /\ \E i \in 1..Len(currentTournament[1].registrations) :
           currentTournament[1].registrations[i].wallet = wallet

Expired == currentTournament # <<>> /\ now > currentTournament[1].endTime

\* C8: while a tournament occupies the slot, expired or not, every start
\* request fails and leaves it as it is; the slot holds at most one
\* tournament and the clock alone never changes it.
C8_StartFailsWhileOccupied ==
    [][/\ Len(currentTournament) <= 1
       /\ currentTournament # <<>> =>
              /\ \A duration \in Durations, prizePool \in PrizePools :
                     LET result == TournamentStartResult(duration, prizePool)
                     IN /\ ~result.response.success
                        /\ result.currentTournament = currentTournament
              /\ last'.op = "tournament/start" =>
                     /\ ~last'.success
                     /\ currentTournament' = currentTournament
       /\ last'.op = "tick" => currentTournament' = currentTournament]_vars

\* a start request failed against a tournament whose endTime has passed
C8_StartRefusedAfterEnd ==
    /\ last.op = "tournament/start"
    /\ last.error = "TOURNAMENT_ALREADY_ACTIVE"
    /\ Expired

\* C9: recordTournamentScore returns false and leaves the tournament as it is
\* when no tournament is active, when the wallet is not registered or when
\* now > endTime; every wallet with a scores entry has a registrations entry.
C9_ScoreOnlyRegisteredInTime ==
    /\ \A wallet \in Wallets, points \in TournamentPoints :
           LET result == RecordTournamentScore(currentTournament, wallet, points)
           IN (\/ currentTournament = <<>>
               \/ ~Registered(wallet)
               \/ Expired)
              => /\ ~result.accepted
                 /\ result.currentTournament = currentTournament
    /\ currentTournament # <<>> =>
           \A i \in 1..Len(currentTournament[1].scores) :
               Registered(currentTournament[1].scores[i].wallet)

\* every wallet is registered and has a score, the tournament's time is up and
\* a game played since went unrecorded
C9_LateGameUnrecorded ==
    /\ last.op = "record-game"
    /\ last.success
    /\ ~last.accepted
    /\ Expired
    /\ \A wallet \in Wallets : Registered(wallet)
    /\ Len(currentTournament[1].scores) > 0

\* C10: register fails and leaves the tournament as it is when none is
\* active, when now > endTime or when the balance fetched for the request is
\* below MIN_HOLD_REQUIREMENT; a registered wallet stays registered until the
\* tournament is stopped and its scores are accepted while the time lasts.
C10_RegisterChecksAndKeeps ==
    [][/\ \A wallet \in Wallets, chumBalance \in Balances :
              LET result == TournamentRegisterResult(wallet, chumBalance)
              IN (\/ currentTournament = <<>>
                  \/ Expired
                  \/ (~Registered(wallet) /\ chumBalance < MIN_HOLD_REQUIREMENT))
                 => /\ ~result.response.success
                    /\ result.currentTournament = currentTournament
       /\ \A wallet \in Wallets :
              Registered(wallet) =>
                  /\ last'.op # "tournament/stop" => Registered(wallet)'
                  /\ ~Expired =>
                         \A points \in TournamentPoints :
                             RecordTournamentScore(currentTournament, wallet,
                                                   points).accepted]_vars

\* a wallet is registered and a registration was refused for its balance
C10_RefusedBelowHold ==
    /\ last.op = "tournament/register"
    /\ last.error = "INSUFFICIENT_BALANCE"
    /\ currentTournament # <<>>
    /\ Len(currentTournament[1].registrations) = 1

\* C20: totalEarned, totalClaimed and pendingRewards of every player
\* record are never negative, whatever the requests to record-game,
\* claim-rewards, confirm-claim and tournament start and stop carry.
C20_AmountsNeverNegative ==
    \A wallet \in DOMAIN playerRecords :
        /\ playerRecords[wallet].totalEarned >= 0
        /\ playerRecords[wallet].totalClaimed >= 0
        /\ playerRecords[wallet].pendingRewards >= 0

(***************************************************************************)
(* Properties of scores and ranking, checked under TournamentSpec          *)
(***************************************************************************)
\* the points of the submissions in a score log
PointsOf(allScores) == {allScores[i].points : i \in 1..Len(allScores)}

MaxOf(S) == CHOOSE p \in S : \A q \in S : p >= q

ScoresOf(ct) == IF ct = <<>> THEN <<>> ELSE ct[1].scores

\* C12 as stated: after any accepted submissions the bestScore of a wallet
\* is the maximum of the points submitted.
C12_BestIsMaxSubmitted ==
    \A i \in 1..Len(ScoresOf(currentTournament)) :
        LET entry == ScoresOf(currentTournament)[i]
        IN entry.bestScore = MaxOf(PointsOf(entry.allScores))

\* C12, amended: bestScore starts at 0, so after any accepted submissions it
\* is the maximum of 0 and the points submitted (never their sum), and while
\* the tournament stays in the slot it never decreases.
C12_BestIsMaxOfZeroAndSubmitted ==
    [][/\ \A i \in 1..Len(ScoresOf(currentTournament')) :
              LET entry == ScoresOf(currentTournament')[i]
              IN /\ entry.allScores # <<>>
                 /\ entry.bestScore = MaxOf(PointsOf(entry.allScores) \cup {0})
       /\ \A i \in 1..Len(ScoresOf(currentTournament)) :
              currentTournament' # <<>>
              => /\ Len(ScoresOf(currentTournament')) >= i
                 /\ ScoresOf(currentTournament')[i].wallet
                        = ScoresOf(currentTournament)[i].wallet
                 /\ ScoresOf(currentTournament')[i].bestScore
                        >= ScoresOf(currentTournament)[i].bestScore]_vars

\* a wallet whose two accepted submissions are both negative: its bestScore
\* is 0, neither their maximum nor their sum
C12_OnlyNegativeSubmitted ==
    /\ last.op = "record-game"
    /\ last.accepted
    /\ \E i \in 1..Len(ScoresOf(currentTournament)) :
           LET entry == ScoresOf(currentTournament)[i]
           IN /\ Len(entry.allScores) = 2
              /\ PointsOf(entry.allScores) = {0 - 50}
              /\ entry.bestScore = 0

\* the ranking of the tournament in the slot, as stop computes it
Ranking == IF currentTournament = <<>> THEN <<>>
           ELSE GetTopScores(currentTournament[1], 99999)

\* every scored wallet is ranked once, with ranks 1..n by bestScore descending
RankedByBestScore ==
    /\ Len(Ranking) = Len(ScoresOf(currentTournament))
    /\ \A i \in 1..Len(ScoresOf(currentTournament)) :
           \E j \in 1..Len(Ranking) :
               /\ Ranking[j].fullWallet = ScoresOf(currentTournament)[i].wallet
               /\ Ranking[j].bestScore = ScoresOf(currentTournament)[i].bestScore
    /\ \A i \in 1..Len(Ranking) : Ranking[i].rank = i
    /\ \A i \in 1..(Len(Ranking) - 1) : Ranking[i].bestScore >= Ranking[i + 1].bestScore

\* C13 as stated: the ranking is by bestScore descending with ranks 1..n,
\* and wallets of equal bestScore are ranked in the order they registered.
C13_TiesByRegistrationOrder ==
    /\ RankedByBestScore
    /\ \A i \in 1..(Len(Ranking) - 1) :
           Ranking[i].bestScore = Ranking[i + 1].bestScore
           => KeyIndex(currentTournament[1].registrations, Ranking[i].fullWallet)
                  < KeyIndex(currentTournament[1].registrations, Ranking[i + 1].fullWallet)

\* C13, amended: the ranking is by bestScore descending with ranks 1..n, and
\* wallets of equal bestScore are ranked in the order in which their first
\* score was recorded (the key order of scores).
C13_TiesByFirstScoreOrder ==
    /\ RankedByBestScore
    /\ \A i \in 1..(Len(Ranking) - 1) :
           Ranking[i].bestScore = Ranking[i + 1].bestScore
           => KeyIndex(currentTournament[1].scores, Ranking[i].fullWallet)
                  < KeyIndex(currentTournament[1].scores, Ranking[i + 1].fullWallet)

\* two wallets tie and the one that registered second scored first
C13_TieScoredInOtherOrder ==
    /\ Len(Ranking) = 2
    /\ Ranking[1].bestScore = Ranking[2].bestScore
    /\ KeyIndex(currentTournament[1].registrations, Ranking[1].fullWallet)
           > KeyIndex(currentTournament[1].registrations, Ranking[2].fullWallet)

\* C18: only a successful stop frees the slot.  It archives the tournament
\* under its id with its registrations, scores and results; after it every
\* register fails with NO_ACTIVE_TOURNAMENT, recordTournamentScore returns
\* false and every start succeeds.  A stop without an active tournament
\* fails and changes nothing.
C18_OnlyStopFreesSlot ==
    [][/\ (currentTournament # <<>> /\ currentTournament' = <<>>)
           => (last'.op = "tournament/stop" /\ last'.success)
       /\ (last'.op = "tournament/stop" /\ last'.success)
           => /\ currentTournament # <<>>
              /\ currentTournament' = <<>>
              /\ currentTournament[1].id \in DOMAIN tournamentHistory'
              /\ LET archived == tournamentHistory'[currentTournament[1].id]
                 IN /\ archived.tournament
                           = [currentTournament[1] EXCEPT !.active = FALSE]
                    /\ archived.endedAt = now
                    /\ archived.results = CalculateTournamentResults(currentTournament[1])
              /\ \A wallet \in Wallets, chumBalance \in Balances :
                     /\ ~(TournamentRegisterResult(wallet, chumBalance).response.success)'
                     /\ (TournamentRegisterResult(wallet, chumBalance).response.error)'
                            = "NO_ACTIVE_TOURNAMENT"
              /\ \A wallet \in Wallets, points \in TournamentPoints :
                     ~RecordTournamentScore(currentTournament', wallet, points).accepted
              /\ \A duration \in Durations, prizePool \in PrizePools :
                     (TournamentStartResult(duration, prizePool).response.success)'
       /\ (last'.op = "tournament/stop" /\ ~last'.success)
           => /\ currentTournament = <<>>
              /\ UNCHANGED <<currentTournament, playerRecords, tournamentHistory,
                             now, gameSessions>>]_vars

\* a tournament with both wallets registered and a score was stopped and
\* archived, and the slot is free
C18_StoppedAndArchived ==
    /\ last.op = "tournament/stop"
    /\ last.success
    /\ currentTournament = <<>>
    /\ \E id \in DOMAIN tournamentHistory :
           /\ Len(tournamentHistory[id].tournament.registrations) = 2
           /\ Len(tournamentHistory[id].tournament.scores) > 0
           /\ tournamentHistory[id].results.totalPlayers > 0

(***************************************************************************)
(* Properties of the prize table, checked under PrizeSpec                  *)
(***************************************************************************)
\* the winners of the tournaments stopped so far
ArchivedWinners == {tournamentHistory[id].results.winners : id \in DOMAIN tournamentHistory}

\* C14: for every prize pool above 0 and every number of ranked players the
\* prizes that calculateTournamentResults gives never increase from a rank
\* to the next: winners[i].prize >= winners[i+1].prize.
C14_PrizesNeverIncrease ==
    \A winners \in ArchivedWinners :
        \A i \in 1..(Len(winners) - 1) : winners[i].prize >= winners[i + 1].prize

\* C15: for every prize pool above 0 and every number of ranked players
\* each winner has a prize above 0 and its record is credited with it when
\* the tournament is stopped.
C15_EveryWinnerPaid ==
    \A id \in DOMAIN tournamentHistory :
        LET winners == tournamentHistory[id].results.winners
        IN \A i \in 1..Len(winners) :
               /\ winners[i].prize > 0
               /\ playerRecords[winners[i].wallet].pendingRewards = winners[i].prize

\* C16: the prize strictly decreases from each rank to the next over ranks
\* 1 to 10 and strictly drops from rank 10 to 11, 25 to 26, 50 to 51 and
\* 100 to 101.
C16_StrictlyDecreasingShape ==
    \A winners \in ArchivedWinners :
        \A i \in 1..(Len(winners) - 1) :
            (i <= 10 \/ i \in {25, 50, 100}) => winners[i].prize > winners[i + 1].prize

\* the record of a wallet before a request, a new one if it has none
RecordBefore(wallet) ==
    IF wallet \in DOMAIN playerRecords THEN playerRecords[wallet] ELSE NewRecord(wallet)

\* C17: a successful stop credits each winner whose prize is above 0 with
\* exactly its prize: totalEarned and pendingRewards go up by the prize and
\* one unclaimed tournament-tagged entry with chumEarned = prize is appended
\* to its earnHistory; no other record changes, and the credits add up to
\* results.totalDistributed.
C17_StopCreditsExactlyPrize ==
    [][(last'.op = "tournament/stop" /\ last'.success) =>
           LET results == tournamentHistory'[currentTournament[1].id].results
               winners == results.winners
               paid == {winners[i].wallet : i \in {k \in 1..Len(winners) :
                                                      winners[k].prize > 0}}
               credits == [i \in 1..Len(winners) |->
                              [prize |-> playerRecords'[winners[i].wallet].pendingRewards
                                            - RecordBefore(winners[i].wallet).pendingRewards]]
           IN /\ DOMAIN playerRecords' = (DOMAIN playerRecords) \cup paid
              /\ \A wallet \in (DOMAIN playerRecords) \ paid :
                     playerRecords'[wallet] = playerRecords[wallet]
              /\ \A i \in 1..Len(winners) :
                     winners[i].prize > 0 =>
                         LET before == RecordBefore(winners[i].wallet)
                             after == playerRecords'[winners[i].wallet]
                             entry == after.earnHistory[Len(after.earnHistory)]
                         IN /\ after.totalEarned = before.totalEarned + winners[i].prize
                            /\ after.pendingRewards
                                   = before.pendingRewards + winners[i].prize
                            /\ after.totalClaimed = before.totalClaimed
                            /\ after.gamesPlayed = before.gamesPlayed
                            /\ Len(after.earnHistory) = Len(before.earnHistory) + 1
                            /\ SubSeq(after.earnHistory, 1, Len(before.earnHistory))
                                   = before.earnHistory
                            /\ entry.chumEarned = winners[i].prize
                            /\ entry.tournamentPrize
                            /\ ~entry.claimed
              /\ SumPrizesBetween(credits, 1, Len(credits)) = results.totalDistributed]_vars

\* a tournament was stopped that has winners with a prize and winners
\* without, and its first winner already held an earlier prize
C17_PaidAndUnpaidWinners ==
    /\ last.op = "tournament/stop"
    /\ last.success
    /\ \E winners \in ArchivedWinners :
           /\ \E i, j \in 1..Len(winners) : winners[i].prize > 0 /\ winners[j].prize = 0
           /\ Len(playerRecords[winners[1].wallet].earnHistory) = 2
           /\ playerRecords[winners[1].wallet].pendingRewards
                  = Chum(Prize(1, 1, 100)) + winners[1].prize

(***************************************************************************)
(* Properties of overlapping requests                                      *)
(***************************************************************************)
RegistrationOf(ct, wallet) == ct[1].registrations[KeyIndex(ct[1].registrations, wallet)]

\* C11: registering is idempotent: however register requests for a wallet
\* repeat or overlap within a tournament, the wallet's registration entry
\* (registeredAt, balance) is written once and never changes afterwards.
C11_RegistrationWrittenOnce ==
    [][\A wallet \in Wallets :
           (/\ Registered(wallet)
            /\ currentTournament' # <<>>
            /\ currentTournament'[1].id = currentTournament[1].id)
           => /\ Registered(wallet)'
              /\ RegistrationOf(currentTournament', wallet)
                     = RegistrationOf(currentTournament, wallet)]_vars

GamesPlayed(records, wallet) ==
    IF wallet \in DOMAIN records THEN records[wallet].gamesPlayed ELSE 0

\* C19: getOrCreatePlayerRecord creates a record atomically: overlapping
\* requests for a wallet that is not cached all work on one record and no
\* update is lost, so every record-game request that completes raises the
\* wallet's gamesPlayed by one (k completed requests leave it at k).
C19_NoUpdateLost ==
    [][\A request \in inflight :
           (request.op = "record-game" /\ request \notin inflight')
           => GamesPlayed(playerRecords', request.wallet)
                  = GamesPlayed(playerRecords, request.wallet) + 1]_vars

(***************************************************************************)
(* Further properties of the claim workflow and the ledger                 *)
(***************************************************************************)
\* C21: confirm-claim for a wallet that has no player record is rejected:
\* it does not answer success, and it changes no state.
C21_ConfirmWithoutRecordRejected ==
    [][(last'.op = "confirm-claim" /\ \A wallet \in LedgerWallets : ~HasRecord(wallet))
       => /\ ~last'.success
          /\ playerRecords' = playerRecords]_vars

\* the amounts a claim-rewards request can ask for: none, a part, more than
\* any record holds here, a negative one
BuildClaimAmounts == {0, Chum(2), Chum(6), 0 - Chum(6)}

C23_VerifiedGameEarnsThree ==
    [][\A wallet \in LedgerWallets :
           (/\ PointsPerChum = 1000
            /\ MIN_HOLD_REQUIREMENT = 25000
            /\ HasRecord(wallet)
            /\ playerRecords[wallet].balance = 30000
            /\ playerRecords[wallet].verifiedAt # Null
            /\ last'.op = "record-game"
            /\ playerRecords' = RecordGameResult(wallet, 3000, 0).playerRecords)
           => /\ VerifyEligibilityResult(wallet, 30000).response.success
              /\ playerRecords'[wallet].totalEarned
                     = playerRecords[wallet].totalEarned + Chum(3)
              /\ playerRecords'[wallet].pendingRewards
                     = playerRecords[wallet].pendingRewards + Chum(3)]_vars

C30_EarnRejectionIsNoOp ==
    deployment = "server" =>
        \A wallet \in Wallets, points \in WorkflowPoints \cup {0},
           chumBalance \in WorkflowBalances :
            (points < POINTS_PER_CHUM_SERVER \/ chumBalance < MIN_HOLD_REQUIREMENT)
                => LET result == RecordGameEarnResult(wallet, points, chumBalance)
                   IN /\ ~result.response.success
                      /\ result.gameSessions = gameSessions
                      /\ result.playerRecords = playerRecords

\* a wallet that earned before had a game rejected for its balance
C30_RejectedAfterEarning ==
    /\ deployment = "server"
    /\ last.op = "record-game"
    /\ ~last.success
    /\ last.error = "INSUFFICIENT_BALANCE"
    /\ gameSessions # <<>>
    /\ \E wallet \in DOMAIN playerRecords : playerRecords[wallet].gamesPlayed > 0

RECURSIVE SessionCredits(_, _, _)
\* the chumEarned of the game sessions S stored for the wallet, added up
SessionCredits(sessions, S, wallet) ==
    IF S = {} THEN 0
    ELSE LET s == CHOOSE x \in S : TRUE
         IN (IF sessions[s].player = wallet THEN sessions[s].chumEarned ELSE 0)
                + SessionCredits(sessions, S \ {s}, wallet)

RECURSIVE PrizeCredits(_, _)
\* the chumEarned of the tournament-prize entries of an earnHistory from
\* entry i on, added up: stop pushes one such entry for each prize it credits
PrizeCredits(earnHistory, i) ==
    IF i > Len(earnHistory) THEN 0
    ELSE (IF earnHistory[i].tournamentPrize THEN earnHistory[i].chumEarned ELSE 0)
             + PrizeCredits(earnHistory, i + 1)

\* every earn credit ever applied to the wallet
CreditsApplied(sessions, records, wallet) ==
    SessionCredits(sessions, DOMAIN sessions, wallet)
        + PrizeCredits(records[wallet].earnHistory, 1)

C25_OldestUnclaimedFirst ==
    \A wallet \in DOMAIN playerRecords :
        LET earnHistory == playerRecords[wallet].earnHistory
        IN \A i, j \in 1..Len(earnHistory) :
               (earnHistory[i].claimed /\ ~earnHistory[j].claimed)
                   => earnHistory[j].timestamp >= earnHistory[i].timestamp

C28_BuildsDoNotReserve ==
    \A wallet \in DOMAIN playerRecords :
        LET pendingRewards == playerRecords[wallet].pendingRewards
            built == {t \in inflight : t.wallet = wallet}
            again == ClaimRewardsResult(wallet, 0, MIN_HOLD_REQUIREMENT, FundedVault,
                                        FALSE, "c2")
        IN /\ playerRecords[wallet].totalClaimed = 0
                  => \A t \in built : 0 < t.amount /\ t.amount <= pendingRewards
           /\ pendingRewards > 0
                  => /\ again.response.success
                     /\ again.response.amount = pendingRewards
                     /\ again.playerRecords = playerRecords

\* part_001: two transfers are outstanding for a wallet, each for all of its
\* pending rewards
C28_TwoFullBuildsOutstanding ==
    /\ deployment = "tournament"
    /\ \E t1, t2 \in inflight :
           /\ t1 # t2
           /\ t1.wallet = t2.wallet
           /\ HasRecord(t1.wallet)
           /\ playerRecords[t1.wallet].pendingRewards > 0
           /\ t1.amount = playerRecords[t1.wallet].pendingRewards
           /\ t2.amount = playerRecords[t1.wallet].pendingRewards
           /\ t1.amount + t2.amount > playerRecords[t1.wallet].pendingRewards

\* C29: as observed through the store, a wallet's record stays, its
\* gamesPlayed never decreases and its lastGameAt, lastClaimAt and verifiedAt
\* never decrease once set, across every interleaving of the requests and of
\* the startup load.
C29_CountersNeverDecrease ==
    [][\A wallet \in DOMAIN playerRecords :
           /\ wallet \in DOMAIN playerRecords'
           /\ LET before == playerRecords[wallet]
                  after == playerRecords'[wallet]
              IN /\ after.gamesPlayed >= before.gamesPlayed
                 /\ before.lastGameAt # Null => after.lastGameAt >= before.lastGameAt
                 /\ before.lastClaimAt # Null => after.lastClaimAt >= before.lastClaimAt
                 /\ before.verifiedAt # Null => after.verifiedAt >= before.verifiedAt]_vars

(***************************************************************************)
(* Properties of persistence, settlement and the tournament races          *)
(***************************************************************************)
\* C31: what savePlayerRecord persists holds at most the 200 most recent
\* earnHistory entries of the cached record, in order, the cached record
\* keeps them all, and every entry left out of the persisted record is a
\* claimed one.
C31_OnlyClaimedDiscarded ==
    \A put \in {q \in inflight : q.op = "firebase-put"} :
        LET cached == playerRecords[put.wallet].earnHistory
            saved == put.data.earnHistory
            dropped == Len(cached) - Len(saved)
        IN /\ Len(saved) <= HISTORY_LIMIT
           /\ dropped >= 0
           /\ \A i \in 1..Len(saved) : saved[i] = cached[dropped + i]
           /\ \A i \in 1..dropped : cached[i].claimed

\* the last n elements of a sequence, or all of it if it is shorter
LastOf(seq, n) == IF Len(seq) > n THEN SubSeq(seq, Len(seq) - n + 1, Len(seq)) ELSE seq

\* C32: for each wallet of the tournament allScores never holds more than 100
\* entries and its length is min(gamesPlayed, 100); an accepted submission
\* raises scores[wallet].gamesPlayed by one and leaves in allScores the most
\* recent 100 of the old log followed by the new score, in submission order;
\* any other step leaves the wallet's scores as they are.
C32_LogIsLastHundred ==
    [][currentTournament # <<>> /\ currentTournament' # <<>> =>
           \A k \in 1..Len(currentTournament[1].scores) :
               LET before == currentTournament[1].scores[k]
                   after == currentTournament'[1].scores[k]
               IN /\ Len(after.allScores) <= ALL_SCORES_CAP
                  /\ Len(after.allScores) = Min(after.gamesPlayed, ALL_SCORES_CAP)
                  /\ IF after = before THEN TRUE
                     ELSE /\ last'.op = "record-game" /\ last'.accepted
                          /\ after.gamesPlayed = before.gamesPlayed + 1
                          /\ \E points \in SettledPoints :
                                 after.allScores =
                                     LastOf(Append(before.allScores,
                                                   [points |-> points, timestamp |-> now]),
                                            ALL_SCORES_CAP)]_vars

\* a wallet has submitted more than 100 scores and the log holds the last
\* 100 of them, the newest at its end
C32_LogFullAndShifted ==
    /\ currentTournament # <<>>
    /\ \E k \in 1..Len(currentTournament[1].scores) :
           LET playerTourney == currentTournament[1].scores[k]
           IN /\ playerTourney.gamesPlayed = MaxSubmissions
              /\ Len(playerTourney.allScores) = ALL_SCORES_CAP
              /\ playerTourney.allScores[ALL_SCORES_CAP].points = 250
              /\ playerTourney.allScores[ALL_SCORES_CAP].timestamp > 0
              /\ playerTourney.allScores[1].points = 10 * 4

\* C33: in a tournament with more than 100 ranked players the players
\* ranked beyond 100 are split in half by rank: those of the top half have
\* the prize floor(prizePool * 0.00065), those of the bottom half the prize
\* max(1, floor(prizePool * 0.0001)); with an odd number of them the one in
\* the middle may have either.
C33_BeyondHundredSplitInHalf ==
    \A id \in DOMAIN tournamentHistory :
        LET results == tournamentHistory[id].results
            winners == results.winners
            remaining == Len(winners) - 100
        IN \A i \in 101..Len(winners) :
               /\ 2 * (i - 100) <= remaining
                      => winners[i].prize = Chum((results.prizePool * 65) \div 100000)
               /\ 2 * (i - 100) > remaining + 1
                      => winners[i].prize = Chum(Max(1, results.prizePool \div 10000))

\* C38: the total a settlement distributes never exceeds the prize pool:
\* for every prizePool above 0 and every number of ranked players
\* results.totalDistributed, the sum of the winners' prizes, is at most
\* prizePool.
C38_DistributedWithinPool ==
    \A id \in DOMAIN tournamentHistory :
        LET results == tournamentHistory[id].results
        IN /\ results.totalDistributed = SumPrizes(results.winners, 1)
           /\ results.totalDistributed % FixedPoint = 0
           /\ results.totalDistributed \div FixedPoint <= results.prizePool

\* C37: the startup load loses no update: when loadAllPlayersFromFirebase
\* completes, a record that a request has put into the cache or changed in
\* the meantime is not replaced by the stored version, and an active
\* tournament is left as it is.
C37_LoadKeepsCachedRecords ==
    [][last'.op = "startup-load" =>
           /\ \A wallet \in DOMAIN playerRecords :
                  /\ wallet \in DOMAIN playerRecords'
                  /\ playerRecords'[wallet] = playerRecords[wallet]
           /\ IsActive(currentTournament) => currentTournament' = currentTournament]_vars

\* C34: each tournament is settled once, whatever the interleaving of the
\* stop requests: a winner's totalEarned is what its prize entries add up
\* to, and it has at most one earnHistory entry for a tournament id.
C34_SettledOnce ==
    \A wallet \in DOMAIN playerRecords :
        LET earnHistory == playerRecords[wallet].earnHistory
        IN /\ playerRecords[wallet].totalEarned = PrizeCredits(earnHistory, 1)
           /\ \A i, j \in 1..Len(earnHistory) :
                  (earnHistory[i].tournamentPrize /\ earnHistory[j].tournamentPrize
                      /\ earnHistory[i].sessionId = earnHistory[j].sessionId) => i = j

\* C40: every score recordTournamentScore accepted counts: while a
\* tournament that has been archived still takes scores, the archive holds
\* the scores of the slot and the standings of its results rank every wallet
\* of the slot with its best score.
C40_AcceptedScoresArchived ==
    \A id \in DOMAIN tournamentHistory :
        (IsActive(currentTournament) /\ currentTournament[1].id = id
             /\ \E request \in inflight : request.op = "tournament/stop")
            => LET slot == currentTournament[1].scores
                   winners == tournamentHistory[id].results.winners
               IN /\ tournamentHistory[id].tournament.scores = slot
                  /\ \A k \in 1..Len(slot) :
                         \E i \in 1..Len(winners) :
                             /\ winners[i].wallet = slot[k].wallet
                             /\ winners[i].bestScore = slot[k].bestScore

\* C39: a registration is written only into the tournament the request's
\* checks ran against and only while it is unexpired: every registration of
\* the slot was written between the start and the end of its tournament, and
\* no register request ends in an error thrown by the handler when the
\* tournament was stopped while its balance lookup was in flight.
C39_RegisteredWhileUnexpired ==
    /\ ~(last.op = "tournament/register" /\ last.error = "TypeError")
    /\ currentTournament # <<>> =>
           \A i \in 1..Len(currentTournament[1].registrations) :
               /\ currentTournament[1].registrations[i].registeredAt
                      <= currentTournament[1].endTime
               /\ currentTournament[1].registrations[i].registeredAt
                      >= currentTournament[1].startTime

\* C35: the authority co-signs only transfers the server built: every
\* transaction cosign-claim signs is one that claim-rewards returned before,
\* for a wallet whose pendingRewards covered its amount, and is unchanged.
C35_CosignsOnlyBuilt ==
    [][(last'.op = "cosign-claim" /\ last'.success) =>
           \A signed \in inflight' \ inflight :
               \E built \in inflight :
                   /\ built.op = "transaction"
                   /\ signed = [built EXCEPT !.op = "signed"]
                   /\ HasRecord(built.wallet)
                   /\ built.amount <= playerRecords[built.wallet].pendingRewards
                                          + playerRecords[built.wallet].totalClaimed]_vars

\* C36: confirm-claim applies to the ledger exactly the claim that was
\* built: a confirm-claim step changes a wallet's totalClaimed only if a
\* claim built for that wallet is outstanding, and then by the amount of
\* that claim.
C36_ConfirmsOnlyBuilt ==
    [][last'.op = "confirm-claim" =>
           \A wallet \in DOMAIN playerRecords' :
               playerRecords'[wallet].totalClaimed # RecordBefore(wallet).totalClaimed =>
                   \E built \in inflight :
                       /\ built.op \in {"transaction", "signed"}
                       /\ built.wallet = wallet
                       /\ playerRecords'[wallet].totalClaimed
                              = RecordBefore(wallet).totalClaimed + built.amount]_vars

====
